---------------------------- MODULE Spec2Model ----------------------------
(***************************************************************************)
(* Model of the portfolio tracker's insights engine                        *)
(* (src/src/web/services/insightsEngine.ts and its main-process copy in    *)
(* src/unnamed/part_011).                                                  *)
(*                                                                         *)
(* Numbers.  The program computes in IEEE doubles; the model computes in   *)
(* fixed point.  A money amount is an integer number of mills (1/1000 of   *)
(* a dollar), so the simulator's 0.01 threshold is 10.  An annual          *)
(* interest rate is an integer number of tenths of a percent, so 7% is 70  *)
(* and the monthly factor rate/100/12 is rate/12000.  A product that is    *)
(* not a whole number of mills is rounded down.                            *)
(***************************************************************************)
EXTENDS Integers, Sequences, FiniteSets, TLC

VARIABLES
    \* ---- estimatePayoffMonths: arguments, locals, position, result ----
    simDebts,             \* argument debts: Seq of [balance, rate, minimumPayment]
    totalMonthlyPayment,  \* argument totalMonthlyPayment
    balances,             \* local balances (copy of the debts' balances)
    months,               \* local months
    budget,               \* local budget (the month's remaining pool)
    accrued,              \* interest added to the active debts in the current month
    starved,              \* history: every month so far accrued >= totalMonthlyPayment
    pc,                   \* position in estimatePayoffMonths
    result,               \* returned value (-1 before the return)
    \* ---- isGoodDebt: arguments and result ----
    debtType,             \* argument debtType
    interestRate,         \* argument interestRate
    good,                 \* returned value (meaningful once goodPc = "done")
    goodPc,               \* position in isGoodDebt
    \* ---- computeInsights: arguments, module state, result ----
    realEstate,           \* argument realEstate
    stocks,               \* argument stocks
    crypto,               \* argument crypto
    retirement,           \* argument retirement
    debts,                \* argument debts
    counter,              \* the module's insight-id counter
    insights,             \* local insights
    debtItems,            \* local debtItems: the objects both sorted lists refer to
    avalanche,            \* local avalanche, as positions in debtItems
    snowball,             \* local snowball, as positions in debtItems
    avalancheMonths,      \* the value of the first estimatePayoffMonths call
    report,               \* returned InsightsReport (Pending before the return)
    reportPc,             \* position in computeInsights / generateInsights
    engine,               \* which engine is called: "web" (computeInsights) or "main"
    age,                  \* main process: the stored 'age' setting, parsed (Nil: none)
    divisions,            \* history: the divisions by a computed value the call performed
    counterBefore,        \* history: the module's counter when the call began
    \* ---- web data layer: object stores, refreshAllPrices, a CRUD operation ----
    db,                   \* the object stores 'stocks' and 'crypto': id -> record or Absent
    rpc,                  \* position in refreshAllPrices
    phase,                \* the store refreshAllPrices is working on
    held,                 \* local stocks / cryptos: the objects getAll returned
    prices,               \* the keys the response has a price for
    idx,                  \* position of the for loop in held
    values,               \* local values of the daily snapshot
    snapshots,            \* the object store 'snapshots'
    upc,                  \* position in update / delete
    existing,             \* local existing of update
    edit,                 \* history: the update or delete that was issued
    \* ---- price scheduler ----
    intervalId,           \* the module's intervalId (Nil: null)
    timers,               \* the timers set and not cleared: [id, kind]
    nextTimer,            \* the id the next timer gets
    stopped,              \* history: the stop function returned after the last start
    refreshStarts,        \* history: refreshAllPrices calls made by timer callbacks
    lateStart             \* history: one of them was made while stopped

simVars == <<simDebts, totalMonthlyPayment, balances, months, budget, accrued, starved, pc, result>>

classifyVars == <<debtType, interestRate, good, goodPc>>

reportVars == <<realEstate, stocks, crypto, retirement, debts, counter, insights, debtItems,
                avalanche, snowball, avalancheMonths, report, reportPc, engine, age,
                divisions, counterBefore>>

storeVars == <<db, rpc, phase, held, prices, idx, values, snapshots, upc, existing, edit>>

timerVars == <<intervalId, timers, nextTimer, stopped, refreshStarts, lateStart>>

vars == <<simDebts, totalMonthlyPayment, balances, months, budget, accrued, starved, pc, result,
          debtType, interestRate, good, goodPc,
          realEstate, stocks, crypto, retirement, debts, counter, insights, debtItems,
          avalanche, snowball, avalancheMonths, report, reportPc, engine, age, divisions,
          counterBefore,
          db, rpc, phase, held, prices, idx, values, snapshots, upc, existing, edit,
          intervalId, timers, nextTimer, stopped, refreshStarts, lateStart>>

-----------------------------------------------------------------------------
(* Arithmetic helpers *)

Min2(a, b) == IF a <= b THEN a ELSE b

Max2(a, b) == IF a >= b THEN a ELSE b

\* floor(a * b / c) for a, b >= 0 and c > 0, split so that no intermediate
\* product leaves the 32-bit range
MulDivFloor(a, b, c) == (a \div c) * b + ((a % c) * b) \div c

RECURSIVE SumSeq(_)
SumSeq(s) == IF s = <<>> THEN 0 ELSE Head(s) + SumSeq(Tail(s))

-----------------------------------------------------------------------------
(* estimatePayoffMonths: constants and the steps of one simulated month *)

MAX_MONTHS == 600

\* 0.01, in mills
EPSILON == 10

\* balances.reduce((s, b) => s + Math.max(b, 0), 0)
TotalRemaining(bals) == SumSeq([i \in DOMAIN bals |-> Max2(bals[i], 0)])

\* balances[i] * rates[i] with rates[i] = rate / 100 / 12
InterestOn(bal, rate) == MulDivFloor(bal, rate, 12000)

\* an interest loop that charges the original balance, not the current one
AccrueInterestOnPrincipal(ds, bals) ==
    [i \in DOMAIN bals |->
        IF bals[i] > 0 THEN bals[i] + MulDivFloor(ds[i].balance, ds[i].rate, 12000)
        ELSE bals[i]]

\* for (i ...) if (balances[i] > 0) balances[i] += balances[i] * rates[i]
AccrueInterest(ds, bals) ==
    [i \in DOMAIN bals |->
        IF bals[i] > 0 THEN bals[i] + InterestOn(bals[i], ds[i].rate) ELSE bals[i]]

\* a Step 1 that forgets budget -= minPay
PayMinimumsKeepsBudget(ds, bals, pool) ==
    [balances |-> [i \in DOMAIN bals |->
                     IF bals[i] <= 0 THEN bals[i]
                     ELSE bals[i] - Min2(Min2(ds[i].minimumPayment, bals[i]), pool)],
     budget |-> pool]

\* a Step 1 whose payment is not capped by the balance
PayMinimumsUncapped(ds, bals, pool) ==
    [balances |-> [i \in DOMAIN bals |->
                     IF bals[i] <= 0 THEN bals[i]
                     ELSE bals[i] - Min2(ds[i].minimumPayment,
                                         pool - SumSeq([j \in 1..(i - 1) |->
                                                          IF bals[j] <= 0 THEN 0
                                                          ELSE ds[j].minimumPayment]))],
     budget |-> pool - SumSeq([j \in DOMAIN bals |->
                                 IF bals[j] <= 0 THEN 0 ELSE ds[j].minimumPayment])]

\* a Step 1 in which a paid-off debt still takes its minimum out of the budget
RECURSIVE PayMinimumsNoRolloverFrom(_, _, _, _)
PayMinimumsNoRolloverFrom(ds, bals, pool, i) ==
    IF i > Len(bals) THEN [balances |-> bals, budget |-> pool]
    ELSE LET minPay == Min2(Min2(ds[i].minimumPayment, Max2(bals[i], 0)), pool)
             taken == IF bals[i] <= 0 THEN Min2(ds[i].minimumPayment, pool) ELSE minPay
         IN  PayMinimumsNoRolloverFrom(ds, [bals EXCEPT ![i] = @ - minPay], pool - taken, i + 1)

PayMinimumsNoRollover(ds, bals, pool) == PayMinimumsNoRolloverFrom(ds, bals, pool, 1)

\* Step 1, from index i on: minPay = Math.min(mins[i], balances[i], budget)
RECURSIVE PayMinimumsFrom(_, _, _, _)
PayMinimumsFrom(ds, bals, pool, i) ==
    IF i > Len(bals) THEN [balances |-> bals, budget |-> pool]
    ELSE IF bals[i] <= 0 THEN PayMinimumsFrom(ds, bals, pool, i + 1)
    ELSE LET minPay == Min2(Min2(ds[i].minimumPayment, bals[i]), pool)
         IN  PayMinimumsFrom(ds, [bals EXCEPT ![i] = @ - minPay], pool - minPay, i + 1)

PayMinimums(ds, bals, pool) == PayMinimumsFrom(ds, bals, pool, 1)

\* the first index with balances[i] > 0, or 0 when there is none
FirstActive(bals) ==
    IF \E i \in DOMAIN bals : bals[i] > 0
    THEN CHOOSE i \in DOMAIN bals : bals[i] > 0 /\ \A j \in 1..(i - 1) : bals[j] <= 0
    ELSE 0

\* a Step 2 that pays the extra only when the whole budget fits in the balance
ApplyExtraWhenItFits(bals, pool) ==
    LET i == IF \E k \in DOMAIN bals : bals[k] > 0
             THEN CHOOSE k \in DOMAIN bals : bals[k] > 0 /\ \A j \in 1..(k - 1) : bals[j] <= 0
             ELSE 0
    IN  IF pool > 0 /\ i # 0 /\ pool <= bals[i]
        THEN [balances |-> [bals EXCEPT ![i] = @ - pool], budget |-> 0]
        ELSE [balances |-> bals, budget |-> pool]

\* a Step 2 without the break: what the first unpaid debt leaves goes on to
\* the next ones
RECURSIVE ApplyExtraFrom(_, _, _)
ApplyExtraFrom(bals, pool, i) ==
    IF i > Len(bals) \/ pool <= 0 THEN [balances |-> bals, budget |-> pool]
    ELSE IF bals[i] <= 0 THEN ApplyExtraFrom(bals, pool, i + 1)
    ELSE ApplyExtraFrom([bals EXCEPT ![i] = @ - Min2(bals[i], pool)],
                        pool - Min2(bals[i], pool), i + 1)

ApplyExtraCascading(bals, pool) == ApplyExtraFrom(bals, pool, 1)

\* Step 2: if (budget > 0) the first unpaid debt gets Math.min(balances[i], budget)
ApplyExtra(bals, pool) ==
    LET i == FirstActive(bals) IN
    IF pool > 0 /\ i # 0
    THEN LET extra == Min2(bals[i], pool)
         IN  [balances |-> [bals EXCEPT ![i] = @ - extra], budget |-> pool - extra]
    ELSE [balances |-> bals, budget |-> pool]

\* a loop test that is off by one
LoopGuardOffByOne(m) == m <= MAX_MONTHS

\* while (months < MAX_MONTHS)
LoopGuard(m) == m < MAX_MONTHS

\* a break test that waits for the balances to reach 0
PaidOffAtZero(bals) == TotalRemaining(bals) <= 0

\* if (totalRemaining <= 0.01) break
PaidOff(bals) == TotalRemaining(bals) <= EPSILON

\* an early return that wants both conditions
EarlyReturnBoth(ds, total) == Len(ds) = 0 /\ total <= 0

\* if (debts.length === 0 || totalMonthlyPayment <= 0) return 0
EarlyReturn(ds, total) == Len(ds) = 0 \/ total <= 0

\* one pass of the loop body after months++: interest, Step 1, Step 2
MonthStep(ds, bals, total) ==
    LET paid == PayMinimums(ds, AccrueInterest(ds, bals), total)
    IN  ApplyExtra(paid.balances, paid.budget).balances

\* the while loop from the state (bals, m), for the passes before pass `stop`
RECURSIVE SimulateUpTo(_, _, _, _, _)
SimulateUpTo(ds, bals, total, m, stop) ==
    IF m < stop /\ LoopGuard(m) /\ ~PaidOff(bals)
    THEN SimulateUpTo(ds, MonthStep(ds, bals, total), total, m + 1, stop)
    ELSE [months |-> m, balances |-> bals]

\* the while loop to its end, evaluated 25 passes at a time (which keeps the
\* evaluation shallow and changes no value)
RECURSIVE SimulateFrom(_, _, _)
SimulateFrom(ds, st, total) ==
    IF LoopGuard(st.months) /\ ~PaidOff(st.balances)
    THEN SimulateFrom(ds,
                      SimulateUpTo(ds, st.balances, total, st.months, st.months + 25),
                      total)
    ELSE st

\* the whole function, as the value it returns
estimatePayoffMonths(ds, total) ==
    IF EarlyReturn(ds, total) THEN 0
    ELSE SimulateFrom(ds,
                      [months |-> 0, balances |-> [i \in DOMAIN ds |-> ds[i].balance]],
                      total).months

-----------------------------------------------------------------------------
(* estimatePayoffMonths as a state machine, one action per block of the code *)

\* the early return, or the three maps and months = 0
Enter ==
    /\ pc = "call"
    /\ IF EarlyReturn(simDebts, totalMonthlyPayment)
       THEN /\ result' = 0
            /\ pc' = "done"
            /\ UNCHANGED balances
       ELSE /\ balances' = [i \in DOMAIN simDebts |-> simDebts[i].balance]
            /\ pc' = "while"
            /\ UNCHANGED result
    /\ months' = 0
    /\ UNCHANGED <<simDebts, totalMonthlyPayment, budget, accrued, starved>>
    /\ UNCHANGED <<classifyVars, reportVars, storeVars, timerVars>>

\* the loop test and the break test pass: months++
BeginMonth ==
    /\ pc = "while"
    /\ LoopGuard(months)
    /\ ~PaidOff(balances)
    /\ months' = months + 1
    /\ pc' = "interest"
    /\ UNCHANGED <<simDebts, totalMonthlyPayment, balances, budget, accrued, starved, result>>
    /\ UNCHANGED <<classifyVars, reportVars, storeVars, timerVars>>

\* a return that reports the cap as a failure
ReturnSignalsCap ==
    /\ pc = "while"
    /\ ~(LoopGuard(months) /\ ~PaidOff(balances))
    /\ result' = (IF months >= MAX_MONTHS THEN -1 ELSE months)
    /\ pc' = "done"
    /\ UNCHANGED <<simDebts, totalMonthlyPayment, balances, months, budget, accrued, starved>>
    /\ UNCHANGED <<classifyVars, reportVars, storeVars, timerVars>>

\* the loop ends (cap or break): return months
Return ==
    /\ pc = "while"
    /\ ~(LoopGuard(months) /\ ~PaidOff(balances))
    /\ result' = months
    /\ pc' = "done"
    /\ UNCHANGED <<simDebts, totalMonthlyPayment, balances, months, budget, accrued, starved>>
    /\ UNCHANGED <<classifyVars, reportVars, storeVars, timerVars>>

\* the interest loop, then let budget = totalMonthlyPayment
Accrue ==
    /\ pc = "interest"
    /\ balances' = AccrueInterest(simDebts, balances)
    /\ accrued' = SumSeq(AccrueInterest(simDebts, balances)) - SumSeq(balances)
    /\ starved' = (starved /\ SumSeq(AccrueInterest(simDebts, balances)) - SumSeq(balances)
                                >= totalMonthlyPayment)
    /\ budget' = totalMonthlyPayment
    /\ pc' = "minimums"
    /\ UNCHANGED <<simDebts, totalMonthlyPayment, months, result>>
    /\ UNCHANGED <<classifyVars, reportVars, storeVars, timerVars>>

\* Step 1: pay minimums on all debts
Minimums ==
    /\ pc = "minimums"
    /\ LET r == PayMinimums(simDebts, balances, budget)
       IN  /\ balances' = r.balances
           /\ budget' = r.budget
    /\ pc' = "extra"
    /\ UNCHANGED <<simDebts, totalMonthlyPayment, months, accrued, starved, result>>
    /\ UNCHANGED <<classifyVars, reportVars, storeVars, timerVars>>

\* Step 2: the remaining budget goes to the first unpaid debt
Extra ==
    /\ pc = "extra"
    /\ LET r == ApplyExtra(balances, budget)
       IN  /\ balances' = r.balances
           /\ budget' = r.budget
    /\ pc' = "while"
    /\ UNCHANGED <<simDebts, totalMonthlyPayment, months, accrued, starved, result>>
    /\ UNCHANGED <<classifyVars, reportVars, storeVars, timerVars>>

-----------------------------------------------------------------------------
(* isGoodDebt *)

DebtTypes == {"credit_card", "student_loan", "auto_loan", "personal_loan", "mortgage",
              "medical", "other"}

\* a classification whose 7% bound is exclusive
isGoodDebtBelowSeven(type, rate) ==
    IF type = "mortgage" THEN TRUE
    ELSE IF type = "student_loan" /\ rate < 70 THEN TRUE
    ELSE FALSE

\* if (debtType === 'mortgage') return true;
\* if (debtType === 'student_loan' && interestRate <= 7) return true; return false
isGoodDebt(type, rate) ==
    IF type = "mortgage" THEN TRUE
    ELSE IF type = "student_loan" /\ rate <= 70 THEN TRUE
    ELSE FALSE

\* one call of isGoodDebt
Classify ==
    /\ goodPc = "call"
    /\ good' = isGoodDebt(debtType, interestRate)
    /\ goodPc' = "done"
    /\ UNCHANGED <<debtType, interestRate>>
    /\ UNCHANGED <<simVars, reportVars, storeVars, timerVars>>

-----------------------------------------------------------------------------
(* computeInsights: the snapshot's records *)

\* an optional field that is absent (undefined)
Nil == -1

\* x ?? y
OrElse(x, y) == IF x = Nil THEN y ELSE x

RealEstateHolding(value, mortgage, payment) ==
    [estimatedValue |-> value, mortgageBalance |-> mortgage, monthlyMortgagePayment |-> payment]

StockHolding(n, cost, price) == [shares |-> n, costBasisPerShare |-> cost, currentPrice |-> price]

CryptoHolding(n, cost, price) == [quantity |-> n, costBasisPerUnit |-> cost, currentPrice |-> price]

RetirementAccount(b) == [balance |-> b]

DebtLiability(n, type, bal, rate, minPay, pay) ==
    [name |-> n, debtType |-> type, currentBalance |-> bal, interestRate |-> rate,
     minimumPayment |-> minPay, monthlyPayment |-> pay]

\* d.monthlyPayment ?? d.minimumPayment
ActualPayment(d) == OrElse(d.monthlyPayment, d.minimumPayment)

StockValue(st) == st.shares * OrElse(st.currentPrice, st.costBasisPerShare)

CryptoValue(c) == c.quantity * OrElse(c.currentPrice, c.costBasisPerUnit)

\* ds.reduce((s, d) => s + d.currentBalance, 0)
SumOfBalances(ds) == SumSeq([i \in DOMAIN ds |-> ds[i].currentBalance])

\* ds.reduce((s, d) => s + (d.monthlyPayment ?? d.minimumPayment), 0)
SumOfPayments(ds) == SumSeq([i \in DOMAIN ds |-> ActualPayment(ds[i])])

\* an exact quotient n / d, kept as the pair; Zero is the fallback value 0
Ratio(n, d) == [num |-> n, den |-> d]

Zero == Ratio(0, 1)

\* r > 0, r < p / q and r >= p / q for a ratio r with a positive denominator
RatioPositive(r) == r.num > 0

RatioBelow(r, p, q) == r.num * q < p * r.den

RatioAtLeast(r, p, q) == r.num * q >= p * r.den

-----------------------------------------------------------------------------
(* computeInsights: the aggregates (lines 38-73) *)

TotalRealEstateEquity(re) == 
    SumSeq([i \in DOMAIN re |-> re[i].estimatedValue - re[i].mortgageBalance])

TotalStocks(st) == SumSeq([i \in DOMAIN st |-> StockValue(st[i])])

TotalCrypto(cr) == SumSeq([i \in DOMAIN cr |-> CryptoValue(cr[i])])

TotalRetirement(rt) == SumSeq([i \in DOMAIN rt |-> rt[i].balance])

TotalAssets(re, st, cr, rt) ==
    TotalRealEstateEquity(re) + TotalStocks(st) + TotalCrypto(cr) + TotalRetirement(rt)

TotalMortgageBalances(re) == SumSeq([i \in DOMAIN re |-> re[i].mortgageBalance])

MonthlyMortgagePayments(re) == 
    SumSeq([i \in DOMAIN re |-> OrElse(re[i].monthlyMortgagePayment, 0)])

TotalDebtsOnly(ds) == SumOfBalances(ds)

TotalAllObligations(re, ds) == TotalDebtsOnly(ds) + TotalMortgageBalances(re)

BadDebts(ds) == SelectSeq(ds, LAMBDA d : ~isGoodDebt(d.debtType, d.interestRate))

\* a good list chosen by type alone (mortgage or student_loan)
GoodDebtsByTypeOnly(ds) ==
    SelectSeq(ds, LAMBDA d : d.debtType \in {"mortgage", "student_loan"})

GoodDebtsFromTable(ds) == SelectSeq(ds, LAMBDA d : isGoodDebt(d.debtType, d.interestRate))

BadDebtTotal(ds) == SumOfBalances(BadDebts(ds))

GoodDebtTotal(re, ds) ==
    SumOfBalances(GoodDebtsFromTable(ds)) + TotalMortgageBalances(re)

BadDebtMonthly(ds) == SumOfPayments(BadDebts(ds))

GoodDebtMonthly(re, ds) ==
    SumOfPayments(GoodDebtsFromTable(ds)) + MonthlyMortgagePayments(re)

\* rate x balance / 100: a year's interest on a balance, rounded down to a mill
YearlyInterest(bal, rate) == MulDivFloor(bal, rate, 1000)

\* debtWeightedSum, as the interest of a year
DebtWeightedSum(ds) ==
    SumSeq([i \in DOMAIN ds |-> YearlyInterest(ds[i].currentBalance, ds[i].interestRate)])

\* (debtWeightedSum + mortgageWeightedSum) / totalAllDebtBalance, or 0 when
\* there is no balance; kept as the fraction of the balance charged per
\* year (0.06 for 6%), mortgages at the assumed 6%
WeightedAvgDebtRate(re, ds) ==
    IF TotalAllObligations(re, ds) > 0
    THEN Ratio(DebtWeightedSum(ds)
                 + YearlyInterest(TotalMortgageBalances(re), 60),
               TotalAllObligations(re, ds))
    ELSE Zero

MonthlyDebtPayments(re, ds) == SumOfPayments(ds) + MonthlyMortgagePayments(re)

HighInterestDebts(ds) == SelectSeq(ds, LAMBDA d : d.interestRate >= 100)

HighInterestDebtTotal(ds) == SumOfBalances(HighInterestDebts(ds))

\* a ratio without the zero-assets fallback
DebtToAssetRatioUnguarded(re, st, cr, rt, ds) ==
    [num |-> TotalAllObligations(re, ds), den |-> TotalAssets(re, st, cr, rt)]

DebtToAssetRatio(re, st, cr, rt, ds) ==
    IF TotalAssets(re, st, cr, rt) > 0
    THEN Ratio(TotalAllObligations(re, ds), TotalAssets(re, st, cr, rt))
    ELSE Zero

-----------------------------------------------------------------------------
(* computeInsights: the rules (lines 75-276).  An insight is modelled by its  *)
(* category, its severity, the fixed words of its title and the names of the  *)
(* debts its text lists; a rule yields a list of zero or one insight.         *)

Insight(cat, sev, words, names) ==
    [category |-> cat, severity |-> sev, title |-> words, debts |-> names]

NamesOf(ds) == [i \in DOMAIN ds |-> ds[i].name]

\* lines 77-104
GoodVsBadRule(re, ds) ==
    IF TotalAllObligations(re, ds) > 0
    THEN IF BadDebtTotal(ds) > 0 /\ GoodDebtTotal(re, ds) > 0
         THEN <<Insight("debt_payoff",
                        IF BadDebtTotal(ds) > GoodDebtTotal(re, ds) THEN "warning" ELSE "info",
                        "bad debt vs good debt", <<>>)>>
         ELSE IF BadDebtTotal(ds) > 0
         THEN <<Insight("debt_payoff", "warning", "All of your debt is high-cost", <<>>)>>
         ELSE IF GoodDebtTotal(re, ds) > 0 /\ BadDebtTotal(ds) = 0
         THEN <<Insight("debt_payoff", "positive",
                        "Only good debt - no high-cost liabilities", <<>>)>>
         ELSE <<>>
    ELSE <<>>

\* lines 108-118; highInterestDebtTotal > totalAssets * 0.1
HighInterestRule(re, st, cr, rt, ds) ==
    IF Len(ds) > 0 /\ HighInterestDebtTotal(ds) > 0
    THEN <<Insight("debt_payoff",
                   IF HighInterestDebtTotal(ds) * 10 > TotalAssets(re, st, cr, rt)
                   THEN "critical" ELSE "warning",
                   "High-interest debt detected", NamesOf(HighInterestDebts(ds)))>>
    ELSE <<>>

\* d.monthlyPayment && d.monthlyPayment <= d.minimumPayment * 1.05
PaysOnlyMinimum(d) ==
    /\ d.monthlyPayment # Nil
    /\ d.monthlyPayment # 0
    /\ d.monthlyPayment * 100 <= d.minimumPayment * 105

MinOnlyDebts(ds) == SelectSeq(ds, PaysOnlyMinimum)

\* lines 120-130
MinimumsOnlyRule(ds) ==
    IF Len(ds) > 0 /\ Len(MinOnlyDebts(ds)) > 0
    THEN <<Insight("cash_flow", "warning", "Paying only minimums on some debts",
                   NamesOf(MinOnlyDebts(ds)))>>
    ELSE <<>>

\* debts.reduce((s, d) => s + (d.currentBalance * d.interestRate / 100), 0)
AnnualInterest(ds) ==
    SumSeq([i \in DOMAIN ds |-> YearlyInterest(ds[i].currentBalance, ds[i].interestRate)])

\* lines 132-141; the threshold is $2000
AnnualInterestRule(ds) ==
    IF Len(ds) > 0 /\ AnnualInterest(ds) > 0
    THEN <<Insight("debt_payoff",
                   IF AnnualInterest(ds) > 2000000 THEN "warning" ELSE "info",
                   "Paying interest per year", <<>>)>>
    ELSE <<>>

StockGains(st) ==
    SumSeq([i \in DOMAIN st |->
        (OrElse(st[i].currentPrice, st[i].costBasisPerShare) - st[i].costBasisPerShare)
            * st[i].shares])

StockCostBasis(st) == 
    SumSeq([i \in DOMAIN st |-> st[i].shares * st[i].costBasisPerShare])

\* holdingYears = Math.max(years since the oldest createdAt, 1): the model's
\* holdings are at most a year old
HoldingYears(st) == 1

\* (Math.pow(1 + stockGains / stockCostBasis, 1 / holdingYears) - 1) * 100, or
\* 0; with holdingYears = 1 this is 100 x gains / cost basis, kept as the
\* return per unit of cost basis
AnnualizedReturn(st) ==
    IF StockCostBasis(st) > 0 THEN Ratio(StockGains(st), StockCostBasis(st)) ELSE Zero

\* d.interestRate > annualizedReturnPct
RateAbove(d, ret) == d.interestRate * ret.den > 1000 * ret.num

HighRateDebtsAboveReturn(st, ds) == SelectSeq(ds, LAMBDA d : RateAbove(d, AnnualizedReturn(st)))

\* lines 161-173
LeverageRule(st, ds) ==
    IF Len(ds) > 0 /\ RatioPositive(AnnualizedReturn(st))
          /\ Len(HighRateDebtsAboveReturn(st, ds)) > 0
    THEN <<Insight("leverage", "warning", "Debt interest exceeds investment returns",
                   NamesOf(HighRateDebtsAboveReturn(st, ds)))>>
    ELSE <<>>

\* a credit-card list chosen by type alone
CreditCardsByType(ds) == SelectSeq(ds, LAMBDA d : d.debtType = "credit_card")

CreditCards(ds) == SelectSeq(ds, LAMBDA d : d.debtType = "credit_card" /\ d.currentBalance > 0)

\* lines 175-187
CreditCardRule(st, cr, ds) ==
    IF Len(CreditCards(ds)) > 0 /\ (TotalStocks(st) > 0 \/ TotalCrypto(cr) > 0)
    THEN <<Insight("leverage", "critical", "Credit card debt while investing", <<>>)>>
    ELSE <<>>

\* bands with the two middle tiers exchanged
RatioSeveritySwapped(r) ==
    IF r.num * 5 < 1 * r.den THEN "positive"
    ELSE IF r.num * 5 < 2 * r.den THEN "warning"
    ELSE IF r.num * 5 < 3 * r.den THEN "info"
    ELSE "critical"

\* bands whose upper thresholds are inclusive
RatioSeverityInclusive(r) ==
    IF r.num * 5 <= 1 * r.den THEN "positive"
    ELSE IF r.num * 5 <= 2 * r.den THEN "info"
    ELSE IF r.num * 5 <= 3 * r.den THEN "warning"
    ELSE "critical"

\* lines 191-204: the four bands of the debt-to-asset ratio
RatioSeverity(r) ==
    IF RatioBelow(r, 1, 5) THEN "positive"
    ELSE IF RatioBelow(r, 2, 5) THEN "info"
    ELSE IF RatioBelow(r, 3, 5) THEN "warning"
    ELSE "critical"

\* lines 190-212
DebtToAssetRule(re, st, cr, rt, ds) ==
    IF RatioPositive(DebtToAssetRatio(re, st, cr, rt, ds))
    THEN <<Insight("portfolio_health", RatioSeverity(DebtToAssetRatio(re, st, cr, rt, ds)),
                   "Debt-to-asset ratio", <<>>)>>
    ELSE <<>>

TotalInvestable(st, cr, rt) == TotalStocks(st) + TotalCrypto(cr) + TotalRetirement(rt)

\* lines 217-226; cryptoPct > 30
CryptoConcentrationRule(st, cr, rt) ==
    IF TotalInvestable(st, cr, rt) > 0 /\ TotalCrypto(cr) * 10 > 3 * TotalInvestable(st, cr, rt)
    THEN <<Insight("portfolio_health", "warning", "Crypto is a high share of investable assets",
                   <<>>)>>
    ELSE <<>>

\* lines 228-236; stocksPct > 80
StockConcentrationRule(st, cr, rt) ==
    IF TotalInvestable(st, cr, rt) > 0 /\ TotalStocks(st) * 5 > 4 * TotalInvestable(st, cr, rt)
    THEN <<Insight("portfolio_health", "info", "Stocks are a high share of investable assets",
                   <<>>)>>
    ELSE <<>>

\* lines 239-252; monthsCovered = liquidAssets / (monthlyDebtPayments * 2) < 3
EmergencyBufferRule(re, st, cr, ds) ==
    IF MonthlyDebtPayments(re, ds) > 0 /\ Len(ds) > 0
          /\ TotalStocks(st) + TotalCrypto(cr) < 3 * (MonthlyDebtPayments(re, ds) * 2)
    THEN <<Insight("cash_flow", "warning", "Limited emergency buffer", <<>>)>>
    ELSE <<>>

\* a net worth that subtracts the mortgages a second time
NetWorthLessObligations(re, st, cr, rt, ds) ==
    TotalAssets(re, st, cr, rt) - TotalAllObligations(re, ds)

\* line 51
NetWorth(re, st, cr, rt, ds) == TotalAssets(re, st, cr, rt) - TotalDebtsOnly(ds)

\* lines 255-263
DebtFreeRule(re, st, cr, rt, ds) ==
    IF NetWorth(re, st, cr, rt, ds) > 0 /\ Len(ds) = 0
    THEN <<Insight("opportunity", "positive", "Debt-free!", <<>>)>>
    ELSE <<>>

\* lines 265-276; retirementPct = totalRetirement / totalAssets * 100 >= 20
RetirementRule(re, st, cr, rt, ds) ==
    IF NetWorth(re, st, cr, rt, ds) > 0 /\ TotalRetirement(rt) > 0
          /\ RatioAtLeast(Ratio(TotalRetirement(rt), TotalAssets(re, st, cr, rt)), 1, 5)
    THEN <<Insight("portfolio_health", "positive", "In retirement accounts", <<>>)>>
    ELSE <<>>

\* one division: the variable it defines and its denominator
Division(site, den) == [site |-> site, den |-> den]

\* the divisions by a computed value that a call performs (lines 66-68, 73,
\* 157-159, 178, 215-216, 242, 266), each under the conditions that guard it;
\* the divisions by a numeric literal (100, 12) are left out
Divisions(re, st, cr, rt, ds) ==
    (IF TotalAllObligations(re, ds) > 0
     THEN {Division("weightedAvgDebtRate", TotalAllObligations(re, ds))} ELSE {})
    \cup (IF TotalAssets(re, st, cr, rt) > 0
          THEN {Division("debtToAssetRatio", TotalAssets(re, st, cr, rt))} ELSE {})
    \cup (IF StockCostBasis(st) > 0
          THEN {Division("annualizedReturnPct", StockCostBasis(st)),
                Division("annualizedReturnPct", HoldingYears(st))}
          ELSE {})
    \cup (IF Len(CreditCards(ds)) > 0 /\ (TotalStocks(st) > 0 \/ TotalCrypto(cr) > 0)
          THEN {Division("avgCCRate", SumOfBalances(CreditCards(ds)))} ELSE {})
    \cup (IF TotalInvestable(st, cr, rt) > 0
          THEN {Division("cryptoPct", TotalInvestable(st, cr, rt)),
                Division("stocksPct", TotalInvestable(st, cr, rt))}
          ELSE {})
    \cup (IF MonthlyDebtPayments(re, ds) > 0 /\ Len(ds) > 0
          THEN {Division("monthsCovered", MonthlyDebtPayments(re, ds) * 2)} ELSE {})
    \cup (IF NetWorth(re, st, cr, rt, ds) > 0 /\ TotalRetirement(rt) > 0
          THEN {Division("retirementPct", TotalAssets(re, st, cr, rt))} ELSE {})

\* the insights in the order in which the code pushes them
PushedInsights(re, st, cr, rt, ds) ==
    GoodVsBadRule(re, ds) \o HighInterestRule(re, st, cr, rt, ds) \o MinimumsOnlyRule(ds)
        \o AnnualInterestRule(ds) \o LeverageRule(st, ds) \o CreditCardRule(st, cr, ds)
        \o DebtToAssetRule(re, st, cr, rt, ds) \o CryptoConcentrationRule(st, cr, rt)
        \o StockConcentrationRule(st, cr, rt) \o EmergencyBufferRule(re, st, cr, ds)
        \o DebtFreeRule(re, st, cr, rt, ds) \o RetirementRule(re, st, cr, rt, ds)

\* a call that goes on counting where the last one stopped
KeepCounter(c) == c

\* line 36: counter = 0
ResetCounter(c) == 0

\* id: nextId() at each push, `insight-${++counter}` from counter value c
InsightsWithIds(re, st, cr, rt, ds, c) ==
    LET pushed == PushedInsights(re, st, cr, rt, ds)
    IN  [k \in DOMAIN pushed |->
            [id |-> c + k, category |-> pushed[k].category, severity |-> pushed[k].severity,
             title |-> pushed[k].title, debts |-> pushed[k].debts]]

\* lines 312-324
Metrics(re, st, cr, rt, ds) ==
    [totalAssets |-> TotalAssets(re, st, cr, rt),
     totalDebts |-> TotalDebtsOnly(ds),
     netWorth |-> NetWorth(re, st, cr, rt, ds),
     debtToAssetRatio |-> DebtToAssetRatio(re, st, cr, rt, ds),
     weightedAvgDebtRate |-> WeightedAvgDebtRate(re, ds),
     monthlyDebtPayments |-> MonthlyDebtPayments(re, ds),
     highInterestDebtTotal |-> HighInterestDebtTotal(ds),
     goodDebtTotal |-> GoodDebtTotal(re, ds),
     badDebtTotal |-> BadDebtTotal(ds),
     goodDebtMonthly |-> GoodDebtMonthly(re, ds),
     badDebtMonthly |-> BadDebtMonthly(ds)]

-----------------------------------------------------------------------------
(* computeInsights: the payoff plans (lines 278-306) and the report *)

\* a payoff block of two empty plans where the code leaves null
EmptyPlans ==
    [avalanche |-> [method |-> "avalanche", order |-> <<>>, totalMonthlyMinimum |-> 0,
                    monthsToPayoff |-> 0],
     snowball |-> [method |-> "snowball", order |-> <<>>, totalMonthlyMinimum |-> 0,
                   monthsToPayoff |-> 0]]

\* debtPayoff = null
Null == [isNull |-> TRUE]

\* debts.map(d => ({name, balance: d.currentBalance, rate: d.interestRate, minimumPayment}))
DebtItems(ds) ==
    [i \in DOMAIN ds |->
        [name |-> ds[i].name, balance |-> ds[i].currentBalance, rate |-> ds[i].interestRate,
         minimumPayment |-> ds[i].minimumPayment]]

\* the stable sort of the positions of a list of keys into ascending order:
\* position a comes before b iff a's key is smaller, or the keys are equal
\* and a < b
StableOrder(keys) ==
    LET n == Len(keys)
        Precedes(a, b) == keys[a] < keys[b] \/ (keys[a] = keys[b] /\ a < b)
        Rank(a) == 1 + Cardinality({b \in 1..n : Precedes(b, a)})
    IN  [k \in 1..n |-> CHOOSE a \in 1..n : Rank(a) = k]

\* an avalanche sorted with the comparator of the snowball's shape, a.rate - b.rate
AvalancheOrderAscending(items) ==
    LET n == Len(items)
        Precedes(a, b) == items[a].rate < items[b].rate \/ (items[a].rate = items[b].rate /\ a < b)
        Rank(a) == 1 + Cardinality({b \in 1..n : Precedes(b, a)})
    IN  [k \in 1..n |-> CHOOSE a \in 1..n : Rank(a) = k]

\* [...debtItems].sort((a, b) => b.rate - a.rate), as positions in debtItems
AvalancheOrder(items) ==
    StableOrder([i \in DOMAIN items |-> 0 - items[i].rate])

\* [...debtItems].sort((a, b) => a.balance - b.balance), as positions in debtItems
SnowballOrder(items) ==
    StableOrder([i \in DOMAIN items |-> items[i].balance])

\* a simulator that keeps its balances in the objects it was given
ObjectsAfterCallInPlace(list, bals) ==
    IF bals = <<>> THEN list
    ELSE [i \in DOMAIN list |-> [list[i] EXCEPT !.balance = bals[i]]]

\* the objects passed to estimatePayoffMonths, after the call that ended with
\* the local balances bals: the call works on copies (lines 339-341)
ObjectsAfterCall(list, bals) == list

\* debtItems after a call on the list order[1], order[2], ... of its objects
AfterCall(items, order, list) ==
    [i \in DOMAIN items |-> list[CHOOSE k \in DOMAIN order : order[k] = i]]

\* the objects a sorted list refers to
Referred(items, order) == [k \in DOMAIN order |-> items[order[k]]]

\* a sort applied to the input array itself
InputSortedInPlace(ds, order) == Referred(ds, order)

\* the input array after lines 281-290: debts.map builds new objects in a new
\* array and each sort receives a copy of that array ([...debtItems]), so the
\* sorts (the last one leaves the given order) do not reach the input
InputAfterSorts(ds, order) == ds

TotalMin(items) == SumSeq([i \in DOMAIN items |-> items[i].minimumPayment])

\* the report is not there yet
Pending == [isPending |-> TRUE]

\* lines 36-276 and, with debts, lines 281-297 up to the first call of
\* estimatePayoffMonths; without debts, the return (generatedAt, a clock
\* reading, is left out)
ComputeInsights ==
    /\ reportPc = "call"
    /\ engine = "web"
    /\ counter' = ResetCounter(counter)
                     + Len(PushedInsights(realEstate, stocks, crypto, retirement, debts))
    /\ divisions' = Divisions(realEstate, stocks, crypto, retirement, debts)
    /\ insights' = InsightsWithIds(realEstate, stocks, crypto, retirement, debts,
                                   ResetCounter(counter))
    /\ IF Len(debts) > 0
       THEN /\ debtItems' = DebtItems(debts)
            /\ avalanche' = AvalancheOrder(DebtItems(debts))
            /\ snowball' = SnowballOrder(DebtItems(debts))
            /\ simDebts' = Referred(DebtItems(debts), AvalancheOrder(DebtItems(debts)))
            /\ totalMonthlyPayment' = TotalMin(DebtItems(debts))
            /\ pc' = "call"
            /\ reportPc' = "avalanche"
            /\ debts' = InputAfterSorts(debts, SnowballOrder(DebtItems(debts)))
            /\ UNCHANGED report
       ELSE /\ report' = [insights |-> InsightsWithIds(realEstate, stocks, crypto, retirement,
                                                       debts, ResetCounter(counter)),
                          debtPayoff |-> Null,
                          metrics |-> Metrics(realEstate, stocks, crypto, retirement, debts)]
            /\ reportPc' = "done"
            /\ UNCHANGED <<debtItems, avalanche, snowball, simDebts, totalMonthlyPayment, pc,
                           debts>>
    /\ UNCHANGED <<realEstate, stocks, crypto, retirement, avalancheMonths, engine, age,
                   counterBefore>>
    /\ UNCHANGED <<balances, months, budget, accrued, starved, result>>
    /\ UNCHANGED <<classifyVars, storeVars, timerVars>>

\* the first call has returned: lines 297-303 up to the second call
AvalancheReturn ==
    /\ reportPc = "avalanche"
    /\ pc = "done"
    /\ avalancheMonths' = result
    /\ debtItems' = AfterCall(debtItems, avalanche, ObjectsAfterCall(simDebts, balances))
    /\ simDebts' = Referred(AfterCall(debtItems, avalanche, ObjectsAfterCall(simDebts, balances)),
                            snowball)
    /\ pc' = "call"
    /\ balances' = <<>>
    /\ months' = 0
    /\ budget' = 0
    /\ accrued' = 0
    /\ starved' = TRUE
    /\ result' = -1
    /\ reportPc' = "snowball"
    /\ UNCHANGED <<realEstate, stocks, crypto, retirement, debts, counter, insights, avalanche,
                   snowball, report, totalMonthlyPayment, engine, age, divisions,
                   counterBefore>>
    /\ UNCHANGED <<classifyVars, storeVars, timerVars>>

\* the second call has returned: lines 303-325
SnowballReturn ==
    /\ reportPc = "snowball"
    /\ pc = "done"
    /\ debtItems' = AfterCall(debtItems, snowball, ObjectsAfterCall(simDebts, balances))
    /\ report' =
          LET items == AfterCall(debtItems, snowball, ObjectsAfterCall(simDebts, balances))
          IN  [insights |-> insights,
               debtPayoff |->
                   [avalanche |-> [method |-> "avalanche",
                                   order |-> Referred(items, avalanche),
                                   totalMonthlyMinimum |-> totalMonthlyPayment,
                                   monthsToPayoff |-> avalancheMonths],
                    snowball |-> [method |-> "snowball",
                                  order |-> Referred(items, snowball),
                                  totalMonthlyMinimum |-> totalMonthlyPayment,
                                  monthsToPayoff |-> result]],
               metrics |-> Metrics(realEstate, stocks, crypto, retirement, debts)]
    /\ reportPc' = "done"
    /\ pc' = "idle"
    /\ UNCHANGED <<realEstate, stocks, crypto, retirement, debts, counter, insights, avalanche,
                   snowball, avalancheMonths, engine, age, divisions, counterBefore>>
    /\ UNCHANGED <<simDebts, totalMonthlyPayment, balances, months, budget, accrued, starved,
                   result>>
    /\ UNCHANGED <<classifyVars, storeVars, timerVars>>

-----------------------------------------------------------------------------
(* generateInsights, the main-process engine (src/unnamed/part_011): the     *)
(* rules of computeInsights on the lists read from the repositories, three   *)
(* age rules after the emergency-buffer rule, and a debt-free insight of its *)
(* own.                                                                      *)

\* if (age && ...): the parsed setting is a number other than 0
\* an age test that passes a stored 0
AgeStored(a) == a # Nil

AgeGiven(a) == a # Nil /\ a # 0

\* lines 924-937; yearsToRetirement = Math.max(65 - age, 0) > 0
YearsToRetirementRule(rt, a) ==
    IF AgeGiven(a) /\ TotalRetirement(rt) > 0 /\ Max2(65 - a, 0) > 0
    THEN <<Insight("portfolio_health", "info", "years to traditional retirement", <<>>)>>
    ELSE <<>>

\* cryptoPct <= 30, with cryptoPct = 0 when totalInvestable is 0
CryptoPctAtMost30(st, cr, rt) ==
    TotalInvestable(st, cr, rt) > 0 => TotalCrypto(cr) * 10 <= 3 * TotalInvestable(st, cr, rt)

\* lines 939-954; cryptoPctOfTotal > 5 && cryptoPctOfTotal <= 25
AgeAppropriateRule(st, cr, rt, a) ==
    IF AgeGiven(a) /\ a < 35 /\ TotalCrypto(cr) > 0 /\ CryptoPctAtMost30(st, cr, rt)
          /\ TotalInvestable(st, cr, rt) > 0
          /\ TotalCrypto(cr) * 20 > TotalInvestable(st, cr, rt)
          /\ TotalCrypto(cr) * 4 <= TotalInvestable(st, cr, rt)
    THEN <<Insight("portfolio_health", "positive", "Age-appropriate risk allocation", <<>>)>>
    ELSE <<>>

\* lines 956-968; volatilePct = (totalCrypto + totalStocks) / totalAssets * 100 > 80,
\* with volatilePct = 0 when totalAssets is not positive
HighEquityRule(re, st, cr, rt, a) ==
    IF AgeGiven(a) /\ a >= 50 /\ TotalAssets(re, st, cr, rt) > 0
          /\ (TotalCrypto(cr) + TotalStocks(st)) * 5 > 4 * TotalAssets(re, st, cr, rt)
    THEN <<Insight("portfolio_health", "warning", "High equity exposure for your age", <<>>)>>
    ELSE <<>>

\* lines 971-979: category: 'positive' as Insight['category']
MainDebtFreeRule(re, st, cr, rt, ds) ==
    IF NetWorth(re, st, cr, rt, ds) > 0 /\ Len(ds) = 0
    THEN <<Insight("positive", "positive", "Debt-free!", <<>>)>>
    ELSE <<>>

\* the insights in the order in which generateInsights pushes them
MainPushedInsights(re, st, cr, rt, ds, a) ==
    GoodVsBadRule(re, ds) \o HighInterestRule(re, st, cr, rt, ds) \o MinimumsOnlyRule(ds)
        \o AnnualInterestRule(ds) \o LeverageRule(st, ds) \o CreditCardRule(st, cr, ds)
        \o DebtToAssetRule(re, st, cr, rt, ds) \o CryptoConcentrationRule(st, cr, rt)
        \o StockConcentrationRule(st, cr, rt) \o EmergencyBufferRule(re, st, cr, ds)
        \o YearsToRetirementRule(rt, a) \o AgeAppropriateRule(st, cr, rt, a)
        \o HighEquityRule(re, st, cr, rt, a)
        \o MainDebtFreeRule(re, st, cr, rt, ds) \o RetirementRule(re, st, cr, rt, ds)

\* id: nextId() at each push, from counter value c
MainInsightsWithIds(re, st, cr, rt, ds, a, c) ==
    LET pushed == MainPushedInsights(re, st, cr, rt, ds, a)
    IN  [k \in DOMAIN pushed |->
            [id |-> c + k, category |-> pushed[k].category, severity |-> pushed[k].severity,
             title |-> pushed[k].title, debts |-> pushed[k].debts]]

\* the divisions of generateInsights: those of computeInsights and lines 943
\* and 958
MainDivisions(re, st, cr, rt, ds, a) ==
    Divisions(re, st, cr, rt, ds)
    \cup (IF AgeGiven(a) /\ a < 35 /\ TotalCrypto(cr) > 0 /\ CryptoPctAtMost30(st, cr, rt)
             /\ TotalInvestable(st, cr, rt) > 0
          THEN {Division("cryptoPctOfTotal", TotalInvestable(st, cr, rt))} ELSE {})
    \cup (IF AgeGiven(a) /\ a >= 50 /\ TotalAssets(re, st, cr, rt) > 0
          THEN {Division("volatilePct", TotalAssets(re, st, cr, rt))} ELSE {})

\* lines 675-993 and, with debts, lines 995-1016 up to the first call of
\* estimatePayoffMonths; without debts, the return
GenerateInsights ==
    /\ reportPc = "call"
    /\ engine = "main"
    /\ counter' = ResetCounter(counter)
                     + Len(MainPushedInsights(realEstate, stocks, crypto, retirement, debts, age))
    /\ divisions' = MainDivisions(realEstate, stocks, crypto, retirement, debts, age)
    /\ insights' = MainInsightsWithIds(realEstate, stocks, crypto, retirement, debts, age,
                                       ResetCounter(counter))
    /\ IF Len(debts) > 0
       THEN /\ debtItems' = DebtItems(debts)
            /\ avalanche' = AvalancheOrder(DebtItems(debts))
            /\ snowball' = SnowballOrder(DebtItems(debts))
            /\ simDebts' = Referred(DebtItems(debts), AvalancheOrder(DebtItems(debts)))
            /\ totalMonthlyPayment' = TotalMin(DebtItems(debts))
            /\ pc' = "call"
            /\ reportPc' = "avalanche"
            /\ debts' = InputAfterSorts(debts, SnowballOrder(DebtItems(debts)))
            /\ UNCHANGED report
       ELSE /\ report' = [insights |-> MainInsightsWithIds(realEstate, stocks, crypto,
                                                           retirement, debts, age,
                                                           ResetCounter(counter)),
                          debtPayoff |-> Null,
                          metrics |-> Metrics(realEstate, stocks, crypto, retirement, debts)]
            /\ reportPc' = "done"
            /\ UNCHANGED <<debtItems, avalanche, snowball, simDebts, totalMonthlyPayment, pc,
                           debts>>
    /\ UNCHANGED <<realEstate, stocks, crypto, retirement, avalancheMonths, engine, age,
                   counterBefore>>
    /\ UNCHANGED <<balances, months, budget, accrued, starved, result>>
    /\ UNCHANGED <<classifyVars, storeVars, timerVars>>

-----------------------------------------------------------------------------
(* The web data layer: the IndexedDB object stores of the holdings, the CRUD
   operations of createEntity and refreshAllPrices, one action per await *)

StoreNames == {"stocks", "crypto"}

\* holdings per object store
MaxRows == 1

RowIds == 1..MaxRows

\* a key of an object store without a record
Absent == [absent |-> TRUE]

\* a stored holding: key is the ticker of a stock or the coinId of a coin, units
\* its shares or quantity, costBasis the cost per share or unit; lastPriceUpdate
\* and updatedAt are 0 (the time of creation) or 1 (the time of the run)
StoredHolding(k, u, p) ==
    [key |-> k, units |-> u, costBasis |-> 100000, currentPrice |-> p,
     lastPriceUpdate |-> 0, updatedAt |-> 0]

\* store.getAll(): the records in key order, each with its id
RECURSIVE GetAllFrom(_, _)
GetAllFrom(table, i) ==
    IF i > MaxRows THEN <<>>
    ELSE (IF table[i] = Absent THEN <<>> ELSE <<[id |-> i, value |-> table[i]]>>)
         \o GetAllFrom(table, i + 1)

getAll(table) == GetAllFrom(table, 1)

\* [...new Set(list.map(s => s.ticker).filter(Boolean))]
Tickers(list) == {list[i].value.key : i \in DOMAIN list} \ {""}

\* the price the response quotes for a key it knows
QuotedPrice(k) == 130000

\* the next position of the for loop, from position `from` on, whose holding
\* has a price in the response; 0 when the loop is over
NextPriced(list, priced, from) ==
    IF \E i \in from..Len(list) : list[i].value.key \in priced
    THEN CHOOSE i \in from..Len(list) :
            /\ list[i].value.key \in priced
            /\ \A j \in from..(i - 1) : list[j].value.key \notin priced
    ELSE 0

\* where refreshAllPrices goes once it is through with a store
AfterStore(s) ==
    IF s = "stocks" THEN [rpc |-> "getAll", phase |-> "crypto"]
    ELSE [rpc |-> "snapshot", phase |-> s]

\* list.reduce((sum, s) => sum + s.shares * (s.currentPrice ?? s.costBasisPerShare), 0)
HoldingsValue(list) ==
    SumSeq([i \in DOMAIN list |->
              list[i].value.units * OrElse(list[i].value.currentPrice, list[i].value.costBasis)])

\* { ...existing, ...data, updatedAt: now() } with data = { shares / quantity: u }
Updated(row, u) == [row EXCEPT !.units = u, !.updatedAt = 1]

\* stock.currentPrice = prices[stock.ticker]; stock.lastPriceUpdate = now
Repriced(row) == [row EXCEPT !.currentPrice = QuotedPrice(row.key), !.lastPriceUpdate = 1]

NoEdit == [kind |-> "none", store |-> "stocks", id |-> 1, units |-> 0, inFlight |-> FALSE]

\* await getAll('stocks') / await getAll('crypto'), and the test on the tickers
GetAll ==
    /\ rpc = "getAll"
    /\ held' = getAll(db[phase])
    /\ IF Tickers(getAll(db[phase])) # {}
       THEN /\ rpc' = "fetch"
            /\ phase' = phase
       ELSE /\ rpc' = AfterStore(phase).rpc
            /\ phase' = AfterStore(phase).phase
    /\ UNCHANGED <<db, prices, idx, values, snapshots, upc, existing, edit>>
    /\ UNCHANGED <<simVars, classifyVars, reportVars, timerVars>>

\* await fetch(...) and await resp.json(): the request fails (it throws or
\* resp.ok is false) or answers with prices for some of the keys; then the for
\* loop up to its first put
Fetch ==
    /\ rpc = "fetch"
    /\ \E ok \in BOOLEAN, priced \in SUBSET Tickers(held) :
          LET got == IF ok THEN priced ELSE {}
          IN  /\ prices' = got
              /\ idx' = NextPriced(held, got, 1)
              /\ IF NextPriced(held, got, 1) # 0
                 THEN /\ rpc' = "put"
                      /\ phase' = phase
                 ELSE /\ rpc' = AfterStore(phase).rpc
                      /\ phase' = AfterStore(phase).phase
    /\ UNCHANGED <<db, held, values, snapshots, upc, existing, edit>>
    /\ UNCHANGED <<simVars, classifyVars, reportVars, timerVars>>

\* await put(store, stock) of the object read by getAll, with the new price,
\* and the loop up to its next put
Put ==
    /\ rpc = "put"
    /\ db' = [db EXCEPT ![phase][held[idx].id] = Repriced(held[idx].value)]
    /\ idx' = NextPriced(held, prices, idx + 1)
    /\ IF NextPriced(held, prices, idx + 1) # 0
       THEN /\ rpc' = "put"
            /\ phase' = phase
       ELSE /\ rpc' = AfterStore(phase).rpc
            /\ phase' = AfterStore(phase).phase
    /\ UNCHANGED <<held, prices, values, snapshots, upc, existing, edit>>
    /\ UNCHANGED <<simVars, classifyVars, reportVars, timerVars>>

\* await Promise.all([getAll(...)]) and the values of the daily snapshot
ReadForSnapshot ==
    /\ rpc = "snapshot"
    /\ values' = [stocksValue |-> HoldingsValue(getAll(db["stocks"])),
                  cryptoValue |-> HoldingsValue(getAll(db["crypto"]))]
    /\ rpc' = "putSnapshot"
    /\ UNCHANGED <<db, phase, held, prices, idx, snapshots, upc, existing, edit>>
    /\ UNCHANGED <<simVars, classifyVars, reportVars, timerVars>>

\* await put('snapshots', snapshot), today's snapshot being replaced; the event
PutSnapshot ==
    /\ rpc = "putSnapshot"
    /\ snapshots' = <<values>>
    /\ rpc' = "done"
    /\ UNCHANGED <<db, phase, held, prices, idx, values, upc, existing, edit>>
    /\ UNCHANGED <<simVars, classifyVars, reportVars, timerVars>>

\* the units an edit sets
EditedUnits == {20}

\* update(id, data) up to await getById: the record, or the throw when there
\* is none
UpdateGet ==
    /\ edit = NoEdit
    /\ \E s \in StoreNames, id \in RowIds, u \in EditedUnits :
          /\ existing' = db[s][id]
          /\ edit' = [kind |-> "update", store |-> s, id |-> id, units |-> u,
                      inFlight |-> (rpc # "done")]
          /\ upc' = IF db[s][id] = Absent THEN "failed" ELSE "put"
    /\ UNCHANGED <<db, rpc, phase, held, prices, idx, values, snapshots>>
    /\ UNCHANGED <<simVars, classifyVars, reportVars, timerVars>>

\* await put(storeName, updated)
UpdatePut ==
    /\ upc = "put"
    /\ db' = [db EXCEPT ![edit.store][edit.id] = Updated(existing, edit.units)]
    /\ upc' = "done"
    /\ UNCHANGED <<rpc, phase, held, prices, idx, values, snapshots, existing, edit>>
    /\ UNCHANGED <<simVars, classifyVars, reportVars, timerVars>>

\* delete(id): remove(storeName, id)
Delete ==
    /\ edit = NoEdit
    /\ \E s \in StoreNames, id \in RowIds :
          /\ db' = [db EXCEPT ![s][id] = Absent]
          /\ edit' = [kind |-> "delete", store |-> s, id |-> id, units |-> 0,
                      inFlight |-> (rpc # "done")]
    /\ upc' = "done"
    /\ UNCHANGED <<rpc, phase, held, prices, idx, values, snapshots, existing>>
    /\ UNCHANGED <<simVars, classifyVars, reportVars, timerVars>>

-----------------------------------------------------------------------------
(* startScheduler / stopScheduler of the web build, which are
   startPriceScheduler / stopPriceScheduler of the main process line for line *)

\* calls of the start function in a run
MaxStarts == 3

\* refreshes a run follows
MaxFirings == 3

\* setTimeout(() => refreshAllPrices(), 3000);
\* intervalId = setInterval(() => refreshAllPrices(), REFRESH_INTERVAL_MS)
StartScheduler ==
    /\ nextTimer + 1 <= 2 * MaxStarts
    /\ timers' = timers \cup {[id |-> nextTimer, kind |-> "timeout"],
                              [id |-> nextTimer + 1, kind |-> "interval"]}
    /\ intervalId' = nextTimer + 1
    /\ nextTimer' = nextTimer + 2
    /\ stopped' = FALSE
    /\ UNCHANGED <<refreshStarts, lateStart>>
    /\ UNCHANGED <<simVars, classifyVars, reportVars, storeVars>>

\* if (intervalId) { clearInterval(intervalId); intervalId = null }
StopScheduler ==
    /\ IF intervalId # Nil
       THEN /\ timers' = {t \in timers : t.id # intervalId}
            /\ intervalId' = Nil
       ELSE UNCHANGED <<timers, intervalId>>
    /\ stopped' = TRUE
    /\ UNCHANGED <<nextTimer, refreshStarts, lateStart>>
    /\ UNCHANGED <<simVars, classifyVars, reportVars, storeVars>>

\* the 3 s timeout expires: its callback starts refreshAllPrices
TimeoutFires ==
    /\ refreshStarts < MaxFirings
    /\ \E t \in timers :
          /\ t.kind = "timeout"
          /\ timers' = timers \ {t}
    /\ refreshStarts' = refreshStarts + 1
    /\ lateStart' = (lateStart \/ stopped)
    /\ UNCHANGED <<intervalId, nextTimer, stopped>>
    /\ UNCHANGED <<simVars, classifyVars, reportVars, storeVars>>

\* 5 minutes of an interval elapse: its callback starts refreshAllPrices
IntervalFires ==
    /\ refreshStarts < MaxFirings
    /\ \E t \in timers : t.kind = "interval"
    /\ refreshStarts' = refreshStarts + 1
    /\ lateStart' = (lateStart \/ stopped)
    /\ UNCHANGED <<intervalId, timers, nextTimer, stopped>>
    /\ UNCHANGED <<simVars, classifyVars, reportVars, storeVars>>

-----------------------------------------------------------------------------
(* Inputs of the simulator *)

MaxDebts == 2

Debt(b, r, m) == [balance |-> b, rate |-> r, minimumPayment |-> m]

\* $40 and $80
GridBalances == {40000, 80000}

\* 0% and 6%
GridRates == {0, 60}

\* $0.20 (the monthly interest on $40 at 6%) and $20
GridMinimums == {200, 20000}

\* $0, $0.20, $20.20, $40
GridBudgets == {0, 200, 20200, 40000}

GridDebts == {Debt(b, r, m) : b \in GridBalances, r \in GridRates, m \in GridMinimums}

RECURSIVE ListsUpTo(_, _)
ListsUpTo(S, n) ==
    IF n = 0 THEN {<<>>}
    ELSE LET shorter == ListsUpTo(S, n - 1)
         IN  shorter \cup {Append(l, d) : l \in {x \in shorter : Len(x) = n - 1}, d \in S}

SimInput(l, b) == [debts |-> l, budget |-> b]

GridInputs == {SimInput(l, b) : l \in ListsUpTo(GridDebts, MaxDebts), b \in GridBudgets}

\* a single 0% debt of balance m x N with minimumPayment m and budget m
MaxRoundTripMonths == 3

RoundTripPayments == {1, 10, 11, 25000}

RoundTripMonths == (1..MaxRoundTripMonths) \cup {MAX_MONTHS - 1, MAX_MONTHS, MAX_MONTHS + 1}

RoundTripInputs == {SimInput(<<Debt(m * n, 0, m)>>, m) : m \in RoundTripPayments, n \in RoundTripMonths}

\* $1200 at 24% with minimumPayment $50 and budget $50
AmortizationInput == SimInput(<<Debt(1200000, 240, 50000)>>, 50000)

\* A: $500 at 20%, minimum $25; B: $5000 at 5%, minimum $100; budget $125
TwoDebtInput == SimInput(<<Debt(500000, 200, 25000), Debt(5000000, 50, 100000)>>, 125000)

\* balances at and around the 0.01 threshold, paid-off and zero-minimum debts,
\* a negative budget
EdgeInputs ==
    {SimInput(<<Debt(b, 0, 200)>>, 200) : b \in {0, 9, 10, 11}}
    \cup {SimInput(<<Debt(5, 60, 0), Debt(5, 0, 200)>>, 200),
          SimInput(<<Debt(6, 60, 0), Debt(5, 0, 200)>>, 200),
          SimInput(<<Debt(10, 12000, 0)>>, 10),
          SimInput(<<Debt(40000, 60, 200)>>, -200),
          SimInput(<<Debt(0, 60, 200), Debt(40000, 60, 0)>>, 20200),
          SimInput(<<Debt(0, 0, 20000), Debt(80000, 0, 0), Debt(40000, 60, 200)>>, 20200)}

SimInputs == GridInputs \cup RoundTripInputs \cup EdgeInputs \cup {AmortizationInput, TwoDebtInput}

\* no refresh and no CRUD operation is modelled
StoreIdle ==
    /\ db = [s \in StoreNames |-> [i \in RowIds |-> Absent]]
    /\ rpc = "idle"
    /\ phase = "stocks"
    /\ held = <<>>
    /\ prices = {}
    /\ idx = 0
    /\ values = [stocksValue |-> 0, cryptoValue |-> 0]
    /\ snapshots = <<>>
    /\ upc = "idle"
    /\ existing = Absent
    /\ edit = NoEdit

\* let intervalId = null, and no timer set
TimerIdle ==
    /\ intervalId = Nil
    /\ timers = {}
    /\ nextTimer = 1
    /\ stopped = FALSE
    /\ refreshStarts = 0
    /\ lateStart = FALSE

\* no call of estimatePayoffMonths is modelled
SimIdle ==
    /\ simDebts = <<>>
    /\ totalMonthlyPayment = 0
    /\ balances = <<>>
    /\ months = 0
    /\ budget = 0
    /\ accrued = 0
    /\ starved = TRUE
    /\ pc = "idle"
    /\ result = -1

\* no call of isGoodDebt is modelled
ClassifyIdle ==
    /\ debtType = "other"
    /\ interestRate = 0
    /\ good = FALSE
    /\ goodPc = "idle"

\* no call of computeInsights is modelled
ReportIdle ==
    /\ realEstate = <<>>
    /\ stocks = <<>>
    /\ crypto = <<>>
    /\ retirement = <<>>
    /\ debts = <<>>
    /\ counter = 0
    /\ insights = <<>>
    /\ debtItems = <<>>
    /\ avalanche = <<>>
    /\ snowball = <<>>
    /\ avalancheMonths = -1
    /\ report = Pending
    /\ reportPc = "idle"
    /\ engine = "web"
    /\ age = Nil
    /\ divisions = {}
    /\ counterBefore = 0

SimInit ==
    /\ \E in \in SimInputs :
          /\ simDebts = in.debts
          /\ totalMonthlyPayment = in.budget
    /\ balances = <<>>
    /\ months = 0
    /\ budget = 0
    /\ accrued = 0
    /\ starved = TRUE
    /\ pc = "call"
    /\ result = -1
    /\ ClassifyIdle
    /\ StoreIdle
    /\ TimerIdle
    /\ ReportIdle

\* the calls followed to their end under fairness: the grid's lists of at most
\* MaxFairDebts debts, and every round-trip, edge and scenario input
MaxFairDebts == 1

FairInputs ==
    {SimInput(l, b) : l \in ListsUpTo(GridDebts, MaxFairDebts), b \in GridBudgets}
    \cup RoundTripInputs \cup EdgeInputs \cup {AmortizationInput, TwoDebtInput}

SimFairInit ==
    /\ \E in \in FairInputs :
          /\ simDebts = in.debts
          /\ totalMonthlyPayment = in.budget
    /\ balances = <<>>
    /\ months = 0
    /\ budget = 0
    /\ accrued = 0
    /\ starved = TRUE
    /\ pc = "call"
    /\ result = -1
    /\ ClassifyIdle
    /\ StoreIdle
    /\ TimerIdle
    /\ ReportIdle

\* the engine runs a call to completion: a call that can take a step takes it
SimFairSpec == SimFairInit /\ [][Enter \/ BeginMonth \/ Return \/ Accrue \/ Minimums \/ Extra]_vars
                 /\ WF_vars(Enter \/ BeginMonth \/ Return \/ Accrue \/ Minimums \/ Extra)

SimNext == Enter \/ BeginMonth \/ Return \/ Accrue \/ Minimums \/ Extra

SimSpec == SimInit /\ [][SimNext]_vars

-----------------------------------------------------------------------------
(* Inputs of isGoodDebt: the seven debt types and the rates 0%, 0.5%, ... *)

MaxRateSteps == 20

ClassifyRates == {k * 5 : k \in 0..MaxRateSteps}

ClassifyInit ==
    /\ debtType \in DebtTypes
    /\ interestRate \in ClassifyRates
    /\ good = FALSE
    /\ goodPc = "call"
    /\ SimIdle
    /\ ReportIdle
    /\ StoreIdle
    /\ TimerIdle

ClassifySpec == ClassifyInit /\ [][Classify]_vars

-----------------------------------------------------------------------------
(* Inputs of computeInsights *)

MaxHoldings == 1

MaxReportDebts == 2

\* a house with equity ($5000, mortgage $3000, $30 a month) and one under
\* water with no payment recorded ($1000, mortgage $2000)
RealEstateChoices == {RealEstateHolding(5000000, 3000000, 30000),
                      RealEstateHolding(1000000, 2000000, Nil)}

\* 10 shares bought at $100 now at $120; 5 shares bought at $50, no price yet
StockChoices == {StockHolding(10, 100000, 120000), StockHolding(5, 50000, Nil)}

\* 1 coin bought at $300, no price yet
CryptoChoices == {CryptoHolding(1, 300000, Nil)}

RetirementChoices == {RetirementAccount(2000000)}

\* no holding of a kind, or a single one
AtMostOne(S) == {<<>>} \cup {<<x>> : x \in S}

DebtChoices ==
    {DebtLiability("Visa", "credit_card", 10000000, 220, 4000000, Nil),
     DebtLiability("Student", "student_loan", 2000000, 70, 1000000, Nil),
     DebtLiability("StudentHi", "student_loan", 2000000, 71, 500000, 1500000),
     DebtLiability("Auto", "auto_loan", 1500000, 50, 750000, 750000),
     DebtLiability("Home", "mortgage", 3000000, 65, 1500000, 0),
     DebtLiability("Paid", "credit_card", 0, 200, 0, Nil)}

Init ==
    /\ realEstate \in AtMostOne(RealEstateChoices)
    /\ stocks \in ListsUpTo(StockChoices, MaxHoldings)
    /\ crypto \in AtMostOne(CryptoChoices)
    /\ retirement \in AtMostOne(RetirementChoices)
    /\ debts \in ListsUpTo(DebtChoices, MaxReportDebts)
    /\ counter = 0
    /\ insights = <<>>
    /\ debtItems = <<>>
    /\ avalanche = <<>>
    /\ snowball = <<>>
    /\ avalancheMonths = -1
    /\ report = Pending
    /\ reportPc = "call"
    /\ engine = "web"
    /\ age = Nil
    /\ divisions = {}
    /\ counterBefore = 0
    /\ SimIdle
    /\ ClassifyIdle
    /\ StoreIdle
    /\ TimerIdle

Next ==
    \/ ComputeInsights
    \/ AvalancheReturn
    \/ SnowballReturn
    \/ Enter
    \/ BeginMonth
    \/ Return
    \/ Accrue
    \/ Minimums
    \/ Extra

Spec == Init /\ [][Next]_vars

-----------------------------------------------------------------------------
(* Inputs of computeInsights around the bands of the debt-to-asset ratio:   *)
(* assets of $0 or $1000, a mortgage of $0 or $500 on a house worth as      *)
(* much, and no debt or one debt of $0, $100, $200, ... and of a mill less  *)
(* and a mill more than each                                                *)

MaxBandSteps == 7

BandBalances ==
    {k * 100000 : k \in 0..MaxBandSteps}
    \cup {k * 100000 - 1 : k \in 1..MaxBandSteps}
    \cup {k * 100000 + 1 : k \in 1..MaxBandSteps}

BandDebt(b) == DebtLiability("Loan", "personal_loan", b, 0, 1000000, Nil)

BandInit ==
    /\ realEstate \in {<<>>, <<RealEstateHolding(500000, 500000, Nil)>>}
    /\ stocks = <<>>
    /\ crypto = <<>>
    /\ retirement \in {<<>>, <<RetirementAccount(1000000)>>}
    /\ debts \in {<<>>} \cup {<<BandDebt(b)>> : b \in BandBalances}
    /\ counter = 0
    /\ insights = <<>>
    /\ debtItems = <<>>
    /\ avalanche = <<>>
    /\ snowball = <<>>
    /\ avalancheMonths = -1
    /\ report = Pending
    /\ reportPc = "call"
    /\ engine = "web"
    /\ age = Nil
    /\ divisions = {}
    /\ counterBefore = 0
    /\ SimIdle
    /\ ClassifyIdle
    /\ StoreIdle
    /\ TimerIdle

BandSpec == BandInit /\ [][Next]_vars

-----------------------------------------------------------------------------
(* Inputs of computeInsights around the return comparison: no stock, or one *)
(* stock with a gain of 20%, without a price, or with a loss of 20% (10     *)
(* shares bought at $100 now at $80), and the debts of the reports          *)

LeverageInit ==
    /\ realEstate = <<>>
    /\ stocks \in AtMostOne(StockChoices \cup {StockHolding(10, 100000, 80000)})
    /\ crypto = <<>>
    /\ retirement = <<>>
    /\ debts \in ListsUpTo(DebtChoices, MaxReportDebts)
    /\ counter = 0
    /\ insights = <<>>
    /\ debtItems = <<>>
    /\ avalanche = <<>>
    /\ snowball = <<>>
    /\ avalancheMonths = -1
    /\ report = Pending
    /\ reportPc = "call"
    /\ engine = "web"
    /\ age = Nil
    /\ divisions = {}
    /\ counterBefore = 0
    /\ SimIdle
    /\ ClassifyIdle
    /\ StoreIdle
    /\ TimerIdle

LeverageSpec == LeverageInit /\ [][Next]_vars

-----------------------------------------------------------------------------
(* Calls of computeInsights one after another in one module instance: the   *)
(* function is synchronous, so a call ends before the next begins; each     *)
(* call gets a snapshot of at most one holding of a kind and one debt       *)

\* the caller calls again, with another snapshot; the module's counter stays
\* as the last call left it
Invoke ==
    /\ reportPc = "done"
    /\ engine = "web"
    /\ realEstate' \in AtMostOne(RealEstateChoices)
    /\ stocks' \in AtMostOne(StockChoices)
    /\ crypto' \in AtMostOne(CryptoChoices)
    /\ retirement' \in AtMostOne(RetirementChoices)
    /\ debts' \in AtMostOne(DebtChoices)
    /\ counterBefore' = counter
    /\ insights' = <<>>
    /\ debtItems' = <<>>
    /\ avalanche' = <<>>
    /\ snowball' = <<>>
    /\ avalancheMonths' = -1
    /\ report' = Pending
    /\ reportPc' = "call"
    /\ divisions' = {}
    /\ simDebts' = <<>>
    /\ totalMonthlyPayment' = 0
    /\ balances' = <<>>
    /\ months' = 0
    /\ budget' = 0
    /\ accrued' = 0
    /\ starved' = TRUE
    /\ pc' = "idle"
    /\ result' = -1
    /\ UNCHANGED <<counter, engine, age>>
    /\ UNCHANGED <<classifyVars, storeVars, timerVars>>

CallsInit ==
    /\ realEstate \in AtMostOne(RealEstateChoices)
    /\ stocks \in AtMostOne(StockChoices)
    /\ crypto \in AtMostOne(CryptoChoices)
    /\ retirement \in AtMostOne(RetirementChoices)
    /\ debts \in AtMostOne(DebtChoices)
    /\ counter = 0
    /\ insights = <<>>
    /\ debtItems = <<>>
    /\ avalanche = <<>>
    /\ snowball = <<>>
    /\ avalancheMonths = -1
    /\ report = Pending
    /\ reportPc = "call"
    /\ engine = "web"
    /\ age = Nil
    /\ divisions = {}
    /\ counterBefore = 0
    /\ SimIdle
    /\ ClassifyIdle
    /\ StoreIdle
    /\ TimerIdle

CallsNext ==
    \/ Invoke
    \/ ComputeInsights
    \/ AvalancheReturn
    \/ SnowballReturn
    \/ Enter
    \/ BeginMonth
    \/ Return
    \/ Accrue
    \/ Minimums
    \/ Extra

CallsSpec == CallsInit /\ [][CallsNext]_vars

-----------------------------------------------------------------------------
(* Inputs of both engines: snapshots of at most one holding of a kind, for  *)
(* the web engine with at most one debt, for the main-process engine with   *)
(* at most MaxMainDebts debts and each age setting                          *)

MaxMainDebts == 1

\* no setting, a setting that parses to 0, and the ages 28, 58 and 70
AgeChoices == {Nil, 0, 28, 58, 70}

MainInit ==
    /\ realEstate \in AtMostOne(RealEstateChoices)
    /\ stocks \in AtMostOne(StockChoices)
    /\ crypto \in AtMostOne(CryptoChoices)
    /\ retirement \in AtMostOne(RetirementChoices)
    /\ debts \in ListsUpTo(DebtChoices, MaxMainDebts)
    /\ counter = 0
    /\ insights = <<>>
    /\ debtItems = <<>>
    /\ avalanche = <<>>
    /\ snowball = <<>>
    /\ avalancheMonths = -1
    /\ report = Pending
    /\ reportPc = "call"
    /\ engine = "main"
    /\ age \in AgeChoices
    /\ divisions = {}
    /\ counterBefore = 0
    /\ SimIdle
    /\ ClassifyIdle
    /\ StoreIdle
    /\ TimerIdle

EnginesInit == CallsInit \/ MainInit

EnginesNext ==
    \/ ComputeInsights
    \/ GenerateInsights
    \/ AvalancheReturn
    \/ SnowballReturn
    \/ Enter
    \/ BeginMonth
    \/ Return
    \/ Accrue
    \/ Minimums
    \/ Extra

EnginesSpec == EnginesInit /\ [][EnginesNext]_vars

-----------------------------------------------------------------------------
(* Inputs of the web data layer: refreshAllPrices has been called and is at its
   first await; each store holds at most MaxRows holdings of 10 units, with or
   without a ticker / coinId, with or without a price *)

StoreKeys(s) == IF s = "stocks" THEN {"AAPL", ""} ELSE {"bitcoin", ""}

InitialHoldings(s) == {StoredHolding(k, 10, p) : k \in StoreKeys(s), p \in {Nil, 100000}}

Tables(s) == [RowIds -> {Absent} \cup InitialHoldings(s)]

RefreshInit ==
    /\ \E st \in Tables("stocks"), cr \in Tables("crypto") :
          db = [s \in StoreNames |-> IF s = "stocks" THEN st ELSE cr]
    /\ rpc = "getAll"
    /\ phase = "stocks"
    /\ held = <<>>
    /\ prices = {}
    /\ idx = 0
    /\ values = [stocksValue |-> 0, cryptoValue |-> 0]
    /\ snapshots = <<>>
    /\ upc = "idle"
    /\ existing = Absent
    /\ edit = NoEdit
    /\ SimIdle
    /\ ClassifyIdle
    /\ ReportIdle
    /\ TimerIdle

RefreshNext == GetAll \/ Fetch \/ Put \/ ReadForSnapshot \/ PutSnapshot
                 \/ UpdateGet \/ UpdatePut \/ Delete

RefreshSpec == RefreshInit /\ [][RefreshNext]_vars

\* the module is loaded: no timer is set, neither function has been called
SchedulerInit ==
    /\ TimerIdle
    /\ SimIdle
    /\ ClassifyIdle
    /\ ReportIdle
    /\ StoreIdle

SchedulerNext == StartScheduler \/ StopScheduler \/ TimeoutFires \/ IntervalFires

SchedulerSpec == SchedulerInit /\ [][SchedulerNext]_vars

-----------------------------------------------------------------------------
(* Properties of estimatePayoffMonths *)

InitialBalances == [i \in DOMAIN simDebts |-> simDebts[i].balance]

\* the sum of the positive entries of a list of balances
PositiveSum(bals) == SumSeq([i \in DOMAIN bals |-> IF bals[i] > 0 THEN bals[i] ELSE 0])

\* the call's arguments make it return at once
NoDebtsOrNoBudget == Len(simDebts) = 0 \/ totalMonthlyPayment <= 0

\* C1: for every list of debts and every budget the call returns, its result
\* is an integer in 0..600, the loop body runs at most 600 times, and the
\* loop ends before the 600th pass only when the positive balances sum to
\* at most 0.01.
C1_TerminatesWithinCap ==
    /\ [](/\ months \in 0..600
          /\ pc = "done" => result \in 0..600
          /\ (pc = "done" /\ ~NoDebtsOrNoBudget /\ result < 600)
                => PositiveSum(balances) <= 10)
    /\ <>(pc = "done")

C1_Witness == pc = "done" /\ result = 600 /\ months = 600 /\ PositiveSum(balances) > 10

\* C2 as stated: for every pair of budgets B1 <= B2 the months for B2 are at
\* most the months for B1.
C2_MonotonicAnyBudget ==
    pc = "done" =>
        \A b2 \in GridBudgets :
            totalMonthlyPayment <= b2 => estimatePayoffMonths(simDebts, b2) <= result

\* C2 (amended): for every pair of positive budgets 0 < B1 <= B2 the months
\* for B2 are at most the months for B1.
C2_MonotonicPositiveBudget ==
    (pc = "done" /\ totalMonthlyPayment > 0) =>
        \A b2 \in GridBudgets :
            totalMonthlyPayment <= b2 => estimatePayoffMonths(simDebts, b2) <= result

C2_Witness ==
    /\ pc = "done"
    /\ totalMonthlyPayment > 0
    /\ \E b2 \in GridBudgets :
          totalMonthlyPayment < b2 /\ estimatePayoffMonths(simDebts, b2) < result

\* the round trip's case: one 0% debt whose balance is a whole number N >= 1
\* of minimum payments m > 0, with budget m
IsRoundTrip ==
    /\ Len(simDebts) = 1
    /\ simDebts[1].rate = 0
    /\ simDebts[1].minimumPayment > 0
    /\ totalMonthlyPayment = simDebts[1].minimumPayment
    /\ simDebts[1].balance >= simDebts[1].minimumPayment
    /\ simDebts[1].balance % simDebts[1].minimumPayment = 0

RoundTripN == simDebts[1].balance \div simDebts[1].minimumPayment

\* C3 as stated: for every N >= 1 and m > 0 the round trip returns exactly N.
C3_RoundTripAnyN == (pc = "done" /\ IsRoundTrip) => result = RoundTripN

\* C3 (amended): for every N in 1..600 and every m above the 0.01 threshold
\* the round trip returns exactly N.
C3_RoundTripWithinCap ==
    (pc = "done" /\ IsRoundTrip /\ RoundTripN <= 600 /\ simDebts[1].minimumPayment > 10)
        => result = RoundTripN

C3_Witness ==
    /\ pc = "done"
    /\ IsRoundTrip
    /\ simDebts[1].minimumPayment = 11
    /\ RoundTripN = 600
    /\ result = 600
    /\ PositiveSum(balances) = 0

\* the interest of the first month, on the debts as passed
FirstMonthInterest ==
    SumSeq([i \in DOMAIN simDebts |->
        IF simDebts[i].balance > 0
        THEN (simDebts[i].balance * simDebts[i].rate) \div 12000 ELSE 0])

\* C5 as stated: for debts that accrue interest, when the interest accrued
\* is at least the budget in every month, the call returns exactly 600.
C5_StarvedReturnsCap ==
    (pc = "done" /\ starved /\ FirstMonthInterest > 0
        /\ FirstMonthInterest >= totalMonthlyPayment) => result = 600

\* C5 (amended): with a positive budget and initial positive balances above
\* 0.01 in total, when the interest accrued is at least the budget in every
\* month, the call returns exactly 600.
C5_StarvedPositiveBudgetReturnsCap ==
    (pc = "done" /\ starved /\ FirstMonthInterest > 0
        /\ FirstMonthInterest >= totalMonthlyPayment
        /\ totalMonthlyPayment > 0 /\ PositiveSum(InitialBalances) > 10)
        => result = 600

C5_Witness ==
    /\ pc = "done"
    /\ starved
    /\ totalMonthlyPayment > 0
    /\ accrued > totalMonthlyPayment
    /\ PositiveSum(balances) > PositiveSum(InitialBalances)
    /\ result = 600

\* C6: the call returns 0 without simulating a month when the list is empty
\* or the budget is <= 0; for a non-empty list and a positive budget it
\* returns 0 exactly when the positive initial balances sum to at most 0.01.
C6_ZeroResult ==
    pc = "done" =>
        /\ NoDebtsOrNoBudget => (result = 0 /\ months = 0 /\ balances = <<>>)
        /\ ~NoDebtsOrNoBudget => (result = 0 <=> PositiveSum(InitialBalances) <= 10)

C6_Witness ==
    /\ pc = "done"
    /\ Len(simDebts) > 0
    /\ totalMonthlyPayment > 0
    /\ PositiveSum(InitialBalances) = 10
    /\ result = 0

\* the standard amortization schedule of one loan: the balance after k
\* payments, B(k) = B(k-1) + interest on B(k-1) - payment
RECURSIVE ScheduleBalance(_, _, _, _)
ScheduleBalance(principal, rate, payment, k) ==
    IF k = 0 THEN principal
    ELSE LET b == ScheduleBalance(principal, rate, payment, k - 1)
         IN  b + (b * rate) \div 12000 - payment

\* the number of payments of the schedule: the first k that clears the loan
SchedulePayments(principal, rate, payment) ==
    CHOOSE k \in 1..600 :
        /\ ScheduleBalance(principal, rate, payment, k) <= 0
        /\ \A j \in 0..(k - 1) : ScheduleBalance(principal, rate, payment, j) > 0

\* C7: for $1200 at 24% with minimum payment and budget $50 the call returns
\* before the cap a positive count, between 32 and 34, equal to the number of
\* payments of the standard amortization schedule.
C7_AmortizationScenario ==
    (pc = "done" /\ SimInput(simDebts, totalMonthlyPayment) = AmortizationInput) =>
        /\ result > 0
        /\ result < 600
        /\ result \in 32..34
        /\ result = SchedulePayments(1200000, 240, 50000)

C7_Witness ==
    pc = "done" /\ SimInput(simDebts, totalMonthlyPayment) = AmortizationInput /\ result = 34

-----------------------------------------------------------------------------
(* Properties of computeInsights and isGoodDebt *)

\* the two plans of a finished report list the same sequence of debts
OrdersCoincide ==
    /\ reportPc = "done"
    /\ report.debtPayoff # Null
    /\ report.debtPayoff.avalanche.order = report.debtPayoff.snowball.order

GoodByRule(d) ==
    d.debtType = "mortgage" \/ (d.debtType = "student_loan" /\ d.interestRate <= 70)

\* the sum of the balances of the debts of a list that the rule calls good
\* (isGood = TRUE) or bad (isGood = FALSE)
BalancesByRule(l, isGood) ==
    SumSeq([i \in DOMAIN l |-> IF GoodByRule(l[i]) = isGood THEN l[i].currentBalance ELSE 0])

\* the sum of the mortgage balances of the real-estate holdings
MortgageBalances(l) == SumSeq([i \in DOMAIN l |-> l[i].mortgageBalance])

\* how often a record occurs in a list
Occurrences(l, x) == Cardinality({i \in DOMAIN l : l[i] = x})

\* C8: classification partitions the debts list: every debt is counted in
\* exactly one of the good and the bad list, goodDebtTotal + badDebtTotal is
\* the sum of the debts' balances plus the sum of the mortgage balances, and
\* the mortgage balances are all counted in goodDebtTotal.
C8_ClassificationPartition ==
    reportPc = "done" =>
        /\ \A i \in DOMAIN debts :
              /\ Occurrences(GoodDebtsFromTable(debts), debts[i])
                    + Occurrences(BadDebts(debts), debts[i]) = Occurrences(debts, debts[i])
              /\ Occurrences(GoodDebtsFromTable(debts), debts[i]) = 0
                    \/ Occurrences(BadDebts(debts), debts[i]) = 0
        /\ Len(GoodDebtsFromTable(debts)) + Len(BadDebts(debts)) = Len(debts)
        /\ report.metrics.goodDebtTotal + report.metrics.badDebtTotal
              = BalancesByRule(debts, TRUE) + BalancesByRule(debts, FALSE)
                  + MortgageBalances(realEstate)
        /\ report.metrics.badDebtTotal
              = BalancesByRule(debts, FALSE)
        /\ report.metrics.goodDebtTotal
              = BalancesByRule(debts, TRUE) + MortgageBalances(realEstate)

C8_Witness ==
    /\ reportPc = "done"
    /\ Len(realEstate) > 0
    /\ \E i, j \in DOMAIN debts :
          /\ debts[i].debtType = "student_loan" /\ debts[i].interestRate = 70
          /\ debts[j].debtType = "student_loan" /\ debts[j].interestRate = 71
    /\ report.metrics.badDebtTotal > 0
    /\ report.metrics.goodDebtTotal > report.metrics.badDebtTotal

\* C9: a debt is good iff its type is mortgage, or its type is student_loan
\* and its rate is at most 7 (7 included); every other type and rate is bad.
C9_GoodDebtRule ==
    goodPc = "done" =>
        (good <=> (debtType = "mortgage" \/ (debtType = "student_loan" /\ interestRate <= 70)))

C9_Witness == goodPc = "done" /\ debtType = "student_loan" /\ interestRate = 70 /\ good

\* all five lists of the snapshot are empty
EmptySnapshot ==
    realEstate = <<>> /\ stocks = <<>> /\ crypto = <<>> /\ retirement = <<>> /\ debts = <<>>

\* C10: for the snapshot with no debts and no assets the call returns a
\* report whose metrics are all 0, whose insights list is empty and whose
\* debtPayoff is null.
C10_EmptySnapshot ==
    (reportPc = "done" /\ EmptySnapshot) =>
        /\ report.metrics.totalAssets = 0
        /\ report.metrics.totalDebts = 0
        /\ report.metrics.netWorth = 0
        /\ report.metrics.debtToAssetRatio = Zero
        /\ report.metrics.weightedAvgDebtRate = Zero
        /\ report.metrics.monthlyDebtPayments = 0
        /\ report.metrics.highInterestDebtTotal = 0
        /\ report.metrics.goodDebtTotal = 0
        /\ report.metrics.badDebtTotal = 0
        /\ report.metrics.goodDebtMonthly = 0
        /\ report.metrics.badDebtMonthly = 0
        /\ report.insights = <<>>
        /\ report.debtPayoff = Null

C10_Witness == reportPc = "done" /\ EmptySnapshot /\ report # Pending

-----------------------------------------------------------------------------
(* Properties of the reports of both engines *)

\* the payoff block of the report is null
PayoffIsNull == DOMAIN report.debtPayoff = {"isNull"}

MetricsFields ==
    {"totalAssets", "totalDebts", "netWorth", "debtToAssetRatio", "weightedAvgDebtRate",
     "monthlyDebtPayments", "highInterestDebtTotal", "goodDebtTotal", "badDebtTotal",
     "goodDebtMonthly", "badDebtMonthly"}

\* C11: in every report of either engine debtPayoff is null iff the debts
\* list is empty; a non-null debtPayoff holds an avalanche and a snowball
\* plan; the insights list and the metrics block are present in every report.
C11_PayoffNullIffNoDebts ==
    reportPc = "done" =>
        /\ PayoffIsNull <=> Len(debts) = 0
        /\ ~PayoffIsNull =>
              /\ DOMAIN report.debtPayoff = {"avalanche", "snowball"}
              /\ report.debtPayoff.avalanche.method = "avalanche"
              /\ report.debtPayoff.snowball.method = "snowball"
              /\ report.debtPayoff.avalanche.monthsToPayoff \in 0..600
              /\ report.debtPayoff.snowball.monthsToPayoff \in 0..600
        /\ DOMAIN report = {"insights", "debtPayoff", "metrics"}
        /\ DOMAIN report.insights = 1..Len(report.insights)
        /\ DOMAIN report.metrics = MetricsFields

C11_Witness ==
    /\ reportPc = "done"
    /\ engine = "main"
    /\ Len(debts) > 0
    /\ ~PayoffIsNull
    /\ report.debtPayoff.avalanche.monthsToPayoff > 0
    /\ report.debtPayoff.snowball.monthsToPayoff > 0
    /\ Len(report.insights) > 0

\* the payoff item the code builds from a debt of the input
ItemOf(d) ==
    [name |-> d.name, balance |-> d.currentBalance, rate |-> d.interestRate,
     minimumPayment |-> d.minimumPayment]

\* a list of payoff items holds each item as often as the input debts give it
SameItemsAsDebts(order) ==
    /\ Len(order) = Len(debts)
    /\ \A i \in DOMAIN debts :
          Occurrences(order, ItemOf(debts[i]))
              = Cardinality({j \in DOMAIN debts : ItemOf(debts[j]) = ItemOf(debts[i])})

\* C12: in every non-null debtPayoff both orders are permutations of the
\* input debts (as {name, balance, rate, minimumPayment}), the avalanche
\* order has non-increasing rates and the snowball order non-decreasing
\* balances.
C12_OrdersArePermutationsSorted ==
    (reportPc = "done" /\ ~PayoffIsNull) =>
        /\ SameItemsAsDebts(report.debtPayoff.avalanche.order)
        /\ SameItemsAsDebts(report.debtPayoff.snowball.order)
        /\ \A i, j \in DOMAIN report.debtPayoff.avalanche.order :
              i < j => report.debtPayoff.avalanche.order[i].rate
                          >= report.debtPayoff.avalanche.order[j].rate
        /\ \A i, j \in DOMAIN report.debtPayoff.snowball.order :
              i < j => report.debtPayoff.snowball.order[i].balance
                          <= report.debtPayoff.snowball.order[j].balance

C12_Witness ==
    /\ reportPc = "done"
    /\ ~PayoffIsNull
    /\ Len(debts) = 2
    /\ report.debtPayoff.avalanche.order # report.debtPayoff.snowball.order
    /\ report.debtPayoff.avalanche.order[1] = ItemOf(debts[2])
    /\ report.debtPayoff.avalanche.order[1].rate > report.debtPayoff.avalanche.order[2].rate
    /\ report.debtPayoff.snowball.order[1].balance < report.debtPayoff.snowball.order[2].balance
    /\ report.debtPayoff.avalanche.monthsToPayoff > 0

\* the insights of the report with a given title
WithTitle(t) == SelectSeq(report.insights, LAMBDA x : x.title = t)

\* the severity the four-tier policy gives the ratio num / den (den > 0)
\* (0.20, 0.40 and 0.60 as the fifths they are)
BandOf(num, den) ==
    IF 5 * num < den THEN "positive"
    ELSE IF 5 * num < 2 * den THEN "info"
    ELSE IF 5 * num < 3 * den THEN "warning"
    ELSE "critical"

\* C13: the debt-to-asset insight is emitted exactly when debtToAssetRatio > 0,
\* exactly once, with severity positive below 0.20, info from 0.20 to below
\* 0.40, warning from 0.40 to below 0.60 and critical from 0.60 on.
C13_RatioBanding ==
    reportPc = "done" =>
        IF report.metrics.debtToAssetRatio.num > 0
        THEN /\ Len(WithTitle("Debt-to-asset ratio")) = 1
             /\ WithTitle("Debt-to-asset ratio")[1].category = "portfolio_health"
             /\ WithTitle("Debt-to-asset ratio")[1].severity
                   = BandOf(report.metrics.debtToAssetRatio.num,
                            report.metrics.debtToAssetRatio.den)
        ELSE Len(WithTitle("Debt-to-asset ratio")) = 0

\* a ratio of exactly 0.60 is critical
C13_Witness ==
    /\ reportPc = "done"
    /\ report.metrics.debtToAssetRatio.num * 5 = 3 * report.metrics.debtToAssetRatio.den
    /\ report.metrics.debtToAssetRatio.num > 0
    /\ Len(realEstate) = 1
    /\ Len(WithTitle("Debt-to-asset ratio")) = 1
    /\ WithTitle("Debt-to-asset ratio")[1].severity = "critical"

\* positive < info < warning < critical; 0 where no tier is assigned
TierRank(list) ==
    IF list = <<>> THEN 0
    ELSE CASE list[1].severity = "positive" -> 1
           [] list[1].severity = "info" -> 2
           [] list[1].severity = "warning" -> 3
           [] list[1].severity = "critical" -> 4

\* the snapshot of the report with its debts replaced by one debt of balance b
TierWithDebt(b) == 
    TierRank(DebtToAssetRule(realEstate, stocks, crypto, retirement, <<BandDebt(b)>>))

\* C14: with the order positive < info < warning < critical, of two snapshots
\* with the same totalAssets and total obligations D1 <= D2 the tier of the
\* second is never lower than the tier of the first.
C14_BandingMonotonic ==
    reportPc = "done" =>
        \A b \in BandBalances :
            TotalDebtsOnly(debts) <= b =>
                TierRank(WithTitle("Debt-to-asset ratio")) <= TierWithDebt(b)

\* a report in the warning tier whose obligations include a mortgage, and a
\* larger debt on the same assets in the critical tier
C14_Witness ==
    /\ reportPc = "done"
    /\ Len(debts) = 1
    /\ Len(realEstate) = 1
    /\ TierRank(WithTitle("Debt-to-asset ratio")) = 3
    /\ \E b \in BandBalances : TotalDebtsOnly(debts) < b /\ TierWithDebt(b) = 4

\* every numeric field of the snapshot is non-negative (Nil: the field is absent)
NonNegativeSnapshot ==
    /\ \A i \in DOMAIN realEstate :
          /\ realEstate[i].estimatedValue >= 0
          /\ realEstate[i].mortgageBalance >= 0
          /\ realEstate[i].monthlyMortgagePayment \in {Nil} \cup Nat
    /\ \A i \in DOMAIN stocks :
          /\ stocks[i].shares >= 0
          /\ stocks[i].costBasisPerShare >= 0
          /\ stocks[i].currentPrice \in {Nil} \cup Nat
    /\ \A i \in DOMAIN crypto :
          /\ crypto[i].quantity >= 0
          /\ crypto[i].costBasisPerUnit >= 0
          /\ crypto[i].currentPrice \in {Nil} \cup Nat
    /\ \A i \in DOMAIN retirement : retirement[i].balance >= 0
    /\ \A i \in DOMAIN debts :
          /\ debts[i].currentBalance >= 0
          /\ debts[i].interestRate >= 0
          /\ debts[i].minimumPayment >= 0
          /\ debts[i].monthlyPayment \in {Nil} \cup Nat

SitesDivided == {d.site : d \in divisions}

\* C15: for a snapshot of non-negative numeric fields no division of the
\* report generation has a zero denominator: debtToAssetRatio,
\* weightedAvgDebtRate, the annualized return and the crypto and stock
\* percentages are 0, undivided, when their denominator is 0, and the
\* retirement percentage, the average credit-card rate and the months covered
\* are computed only with a positive denominator.
C15_NoZeroDenominator ==
    (reportPc # "call" /\ NonNegativeSnapshot) =>
        /\ \A d \in divisions : d.den > 0
        /\ TotalAssets(realEstate, stocks, crypto, retirement) = 0
              => "debtToAssetRatio" \notin SitesDivided
        /\ TotalAllObligations(realEstate, debts) = 0
              => "weightedAvgDebtRate" \notin SitesDivided
        /\ StockCostBasis(stocks) = 0 => "annualizedReturnPct" \notin SitesDivided
        /\ TotalInvestable(stocks, crypto, retirement) = 0
              => SitesDivided \cap {"cryptoPct", "stocksPct"} = {}
        /\ reportPc = "done" =>
              /\ TotalAssets(realEstate, stocks, crypto, retirement) = 0
                    => report.metrics.debtToAssetRatio = Zero
              /\ TotalAllObligations(realEstate, debts) = 0
                    => report.metrics.weightedAvgDebtRate = Zero

\* a report that divided by the credit-card total and by the expense estimate
\* although one of the cards has no balance, with no stock cost basis
C15_Witness ==
    /\ reportPc = "done"
    /\ NonNegativeSnapshot
    /\ {"avgCCRate", "monthsCovered"} \subseteq SitesDivided
    /\ \E i \in DOMAIN debts :
          debts[i].debtType = "credit_card" /\ debts[i].currentBalance = 0
    /\ StockCostBasis(stocks) = 0

\* the sum of the balances of the debts list
DebtBalances(l) == SumSeq([i \in DOMAIN l |-> l[i].currentBalance])

\* what the holdings are worth before any mortgage is taken off
GrossHoldings ==
    SumSeq([i \in DOMAIN realEstate |-> realEstate[i].estimatedValue])
    + SumSeq([i \in DOMAIN stocks |-> StockValue(stocks[i])])
    + SumSeq([i \in DOMAIN crypto |-> CryptoValue(crypto[i])])
    + SumSeq([i \in DOMAIN retirement |-> retirement[i].balance])

\* C16: netWorth = totalAssets - totalDebts, where totalDebts is the sum of
\* the debts-list balances only; each mortgage balance reduces netWorth once,
\* through the equity inside totalAssets, and is not part of totalDebts; the
\* numerator of debtToAssetRatio is the debts-list balances plus the mortgage
\* balances.
C16_MortgageCountedOnce ==
    reportPc = "done" =>
        /\ report.metrics.netWorth = report.metrics.totalAssets - report.metrics.totalDebts
        /\ report.metrics.totalDebts = DebtBalances(debts)
        /\ report.metrics.totalAssets = GrossHoldings - MortgageBalances(realEstate)
        /\ report.metrics.netWorth
              = GrossHoldings - MortgageBalances(realEstate) - DebtBalances(debts)
        /\ report.metrics.totalAssets > 0 =>
              /\ report.metrics.debtToAssetRatio.num
                    = DebtBalances(debts) + MortgageBalances(realEstate)
              /\ report.metrics.debtToAssetRatio.den = report.metrics.totalAssets

\* a report on a mortgaged house and a debt with a balance
C16_Witness ==
    /\ reportPc = "done"
    /\ MortgageBalances(realEstate) > 0
    /\ DebtBalances(debts) > 0
    /\ report.metrics.totalAssets > 0
    /\ report.metrics.totalDebts < report.metrics.debtToAssetRatio.num

\* models.ts lines 109-110: the declared categories and severities
InsightCategories == {"debt_payoff", "leverage", "portfolio_health", "cash_flow", "opportunity"}

InsightSeverities == {"info", "warning", "critical", "positive"}

\* C17: every insight of every report of either engine has its category among
\* debt_payoff, leverage, portfolio_health, cash_flow, opportunity and its
\* severity among info, warning, critical, positive.
C17_InsightsWithinEnums ==
    reportPc = "done" =>
        \A k \in DOMAIN report.insights :
            /\ report.insights[k].category \in InsightCategories
            /\ report.insights[k].severity \in InsightSeverities

\* the same of the reports of computeInsights alone
C17_WebInsightsWithinEnums ==
    (reportPc = "done" /\ engine = "web") =>
        \A k \in DOMAIN report.insights :
            /\ report.insights[k].category \in InsightCategories
            /\ report.insights[k].severity \in InsightSeverities

\* a report of generateInsights with the debt-free insight
C17_Witness ==
    /\ reportPc = "done"
    /\ engine = "main"
    /\ debts = <<>>
    /\ \E k \in DOMAIN report.insights : report.insights[k].title = "Debt-free!"

-----------------------------------------------------------------------------
(* Properties of calls made one after another *)

\* the months a call alone simulates for a plan of the snapshot's debts
MonthsAlone(order) ==
    estimatePayoffMonths(Referred(DebtItems(debts), order), TotalMin(DebtItems(debts)))

-----------------------------------------------------------------------------
(* Properties of the arguments of computeInsights *)

-----------------------------------------------------------------------------
(* Properties of the leverage warning *)

\* the debt's rate is greater than the annualized return of the stocks (the
\* gains per unit of cost basis of holdings a year old; 0 without cost basis)
ExceedsReturn(d) ==
    IF StockCostBasis(stocks) = 0 THEN d.interestRate > 0
    ELSE d.interestRate * StockCostBasis(stocks) > 1000 * StockGains(stocks)

DebtsExceedingReturn == SelectSeq(debts, ExceedsReturn)

LeverageWarnings == WithTitle("Debt interest exceeds investment returns")

\* C20: with at least one debt, the leverage warning is emitted if and only
\* if some debt has an interestRate greater than the annualized return (0
\* when the stock cost basis is 0), and it names exactly those debts.
C20_LeverageWarningIff ==
    (reportPc = "done" /\ Len(debts) >= 1) =>
        IF DebtsExceedingReturn # <<>>
        THEN /\ Len(LeverageWarnings) = 1
             /\ LeverageWarnings[1].debts = NamesOf(DebtsExceedingReturn)
        ELSE LeverageWarnings = <<>>

\* what the code does: the warning also requires a positive annualized return
C20_WarningNeedsPositiveReturn ==
    (reportPc = "done" /\ Len(debts) >= 1) =>
        IF DebtsExceedingReturn # <<>> /\ StockCostBasis(stocks) > 0 /\ StockGains(stocks) > 0
        THEN /\ Len(LeverageWarnings) = 1
             /\ LeverageWarnings[1].severity = "warning"
             /\ LeverageWarnings[1].debts = NamesOf(DebtsExceedingReturn)
        ELSE LeverageWarnings = <<>>

\* a report on stocks held at a loss and a debt at 22%, without the warning
C20_Witness ==
    /\ reportPc = "done"
    /\ StockGains(stocks) < 0
    /\ \E i \in DOMAIN debts : debts[i].interestRate = 220
    /\ LeverageWarnings = <<>>

\* a report that names one of its two debts in the warning
C20_NamesSome ==
    /\ reportPc = "done"
    /\ Len(debts) = 2
    /\ Len(LeverageWarnings) = 1
    /\ Len(LeverageWarnings[1].debts) = 1

-----------------------------------------------------------------------------
(* Properties of the age-conditioned insights of generateInsights *)

AgeAppropriate == WithTitle("Age-appropriate risk allocation")

HighEquity == WithTitle("High equity exposure for your age")

YearsToRetirement == WithTitle("years to traditional retirement")

\* crypto is more than 5% and at most 25% of stocks + crypto + retirement
CryptoShare5To25 ==
    /\ TotalCrypto(crypto) * 20 > TotalInvestable(stocks, crypto, retirement)
    /\ TotalCrypto(crypto) * 4 <= TotalInvestable(stocks, crypto, retirement)

\* stocks + crypto are more than 80% of the total assets
VolatileAbove80 ==
    (TotalCrypto(crypto) + TotalStocks(stocks)) * 5
        > 4 * TotalAssets(realEstate, stocks, crypto, retirement)

\* C21 as stated: with an age stored, under 35 the positive insight is
\* emitted whenever crypto is between 5% and 25% of investable assets, from 50
\* the warning whenever stocks + crypto exceed 80% of total assets; with no
\* age stored none of the age-conditioned insights is emitted.
C21_AgeInsightsWhenStored ==
    (reportPc = "done" /\ engine = "main") =>
        /\ (age # Nil /\ age < 35 /\ CryptoShare5To25)
              => (Len(AgeAppropriate) = 1 /\ AgeAppropriate[1].severity = "positive")
        /\ (age # Nil /\ age >= 50 /\ VolatileAbove80)
              => (Len(HighEquity) = 1 /\ HighEquity[1].severity = "warning")
        /\ age = Nil
              => (AgeAppropriate = <<>> /\ HighEquity = <<>> /\ YearsToRetirement = <<>>)

\* C21: with a stored age other than 0, under 35 the positive insight is
\* emitted exactly when crypto is more than 5% and at most 25% of investable
\* assets, from 50 the warning exactly when total assets are positive and
\* stocks + crypto exceed 80% of them; with no age stored, or 0, none of the
\* age-conditioned insights is emitted.
C21_AgeInsightsWhenNonZero ==
    (reportPc = "done" /\ engine = "main") =>
        /\ Len(AgeAppropriate)
              = IF age \notin {Nil, 0} /\ age < 35 /\ CryptoShare5To25 THEN 1 ELSE 0
        /\ \A k \in DOMAIN AgeAppropriate : AgeAppropriate[k].severity = "positive"
        /\ Len(HighEquity)
              = IF /\ age \notin {Nil, 0}
                   /\ age >= 50
                   /\ TotalAssets(realEstate, stocks, crypto, retirement) > 0
                   /\ VolatileAbove80
                THEN 1 ELSE 0
        /\ \A k \in DOMAIN HighEquity : HighEquity[k].severity = "warning"
        /\ age \in {Nil, 0}
              => (AgeAppropriate = <<>> /\ HighEquity = <<>> /\ YearsToRetirement = <<>>)

\* a report for the age 28 with crypto between 5% and 25% of the investable
\* assets and a retirement account: the positive insight and the years note
C21_Witness ==
    /\ reportPc = "done"
    /\ engine = "main"
    /\ age = 28
    /\ CryptoShare5To25
    /\ Len(AgeAppropriate) = 1
    /\ Len(YearsToRetirement) = 1
    /\ HighEquity = <<>>

-----------------------------------------------------------------------------
(* Properties of the two engines on one snapshot *)

\* the report computeInsights returns for the snapshot
WebInsights == InsightsWithIds(realEstate, stocks, crypto, retirement, debts, 0)

SamePayoffAsWeb ==
    IF debts = <<>>
    THEN PayoffIsNull
    ELSE /\ ~PayoffIsNull
         /\ report.debtPayoff.avalanche
               = [method |-> "avalanche",
                  order |-> Referred(DebtItems(debts), AvalancheOrder(DebtItems(debts))),
                  totalMonthlyMinimum |-> TotalMin(DebtItems(debts)),
                  monthsToPayoff |-> MonthsAlone(AvalancheOrder(DebtItems(debts)))]
         /\ report.debtPayoff.snowball
               = [method |-> "snowball",
                  order |-> Referred(DebtItems(debts), SnowballOrder(DebtItems(debts))),
                  totalMonthlyMinimum |-> TotalMin(DebtItems(debts)),
                  monthsToPayoff |-> MonthsAlone(SnowballOrder(DebtItems(debts)))]

\* C22: with no age setting stored, generateInsights returns for every
\* snapshot a report with the metrics and the debtPayoff of computeInsights and
\* an insights list equal to its list in length, order, category, severity and
\* title.
C22_EnginesAgree ==
    (reportPc = "done" /\ engine = "main" /\ age = Nil) =>
        /\ report.metrics = Metrics(realEstate, stocks, crypto, retirement, debts)
        /\ SamePayoffAsWeb
        /\ Len(report.insights) = Len(WebInsights)
        /\ \A k \in DOMAIN report.insights :
              /\ report.insights[k].category = WebInsights[k].category
              /\ report.insights[k].severity = WebInsights[k].severity
              /\ report.insights[k].title = WebInsights[k].title

\* the same, but for the category of the debt-free insight
C22_EnginesAgreeButDebtFree ==
    (reportPc = "done" /\ engine = "main" /\ age = Nil) =>
        /\ report.metrics = Metrics(realEstate, stocks, crypto, retirement, debts)
        /\ SamePayoffAsWeb
        /\ Len(report.insights) = Len(WebInsights)
        /\ \A k \in DOMAIN report.insights :
              /\ report.insights[k].title # "Debt-free!"
                    => report.insights[k].category = WebInsights[k].category
              /\ report.insights[k].severity = WebInsights[k].severity
              /\ report.insights[k].title = WebInsights[k].title

\* a report of generateInsights, no age stored, whose debt-free insight has
\* another category than the one computeInsights gives it
C22_Witness ==
    /\ reportPc = "done"
    /\ engine = "main"
    /\ age = Nil
    /\ \E k \in DOMAIN report.insights :
          /\ report.insights[k].title = "Debt-free!"
          /\ WebInsights[k].title = "Debt-free!"
          /\ report.insights[k].category # WebInsights[k].category

-----------------------------------------------------------------------------
(* Properties of the steps of a simulated month *)

\* no debt before position i has a balance > 0, and debt i has one
FirstWithBalance(i) ==
    /\ i \in DOMAIN balances
    /\ balances[i] > 0
    /\ \A j \in 1..(i - 1) : balances[j] <= 0

\* what debt i is paid in the step
PaidInStep(i) == balances[i] - balances'[i]

\* C23: in every simulated month the budget left after the minimum-payment
\* step goes to exactly one debt, the first in the input order whose balance
\* is still > 0, and no other debt is paid more than min(minimumPayment,
\* balance) in that month, even when the leftover exceeds the first debt's
\* balance.
C23_ExtraToFirstActiveOnly ==
    [][/\ pc = "minimums" =>
             \A i \in DOMAIN balances :
                 /\ PaidInStep(i) >= 0
                 /\ PaidInStep(i) <= Min2(simDebts[i].minimumPayment, Max2(balances[i], 0))
       /\ pc = "extra" =>
             \A i \in DOMAIN balances :
                 IF FirstWithBalance(i) /\ budget > 0
                 THEN /\ PaidInStep(i) = Min2(balances[i], budget)
                      /\ budget' = budget - PaidInStep(i)
                 ELSE PaidInStep(i) = 0]_vars

\* after the extra step some budget is left over, the first active debt
\* having been paid off by it, and a later debt still has a balance
C23_Witness ==
    /\ pc = "while"
    /\ months > 0
    /\ budget > 0
    /\ Len(balances) >= 2
    /\ balances[1] = 0
    /\ \E j \in DOMAIN balances : balances[j] > 0

\* the sum of minimumPayment over the debts of ds[1..i] whose balance in bals is <= 0
RECURSIVE MinimumsOfPaidOff(_, _, _)
MinimumsOfPaidOff(ds, bals, i) ==
    IF i = 0 THEN 0
    ELSE MinimumsOfPaidOff(ds, bals, i - 1)
         + (IF bals[i] <= 0 THEN ds[i].minimumPayment ELSE 0)

\* the sum of minimumPayment over ds[1..i]
RECURSIVE MinimumsUpTo(_, _)
MinimumsUpTo(ds, i) ==
    IF i = 0 THEN 0 ELSE MinimumsUpTo(ds, i - 1) + ds[i].minimumPayment

\* C24: the minimum payment of a paid-off debt rolls into the extra pool.  With
\* the budget equal to the sum of all minimum payments, in every month that
\* starts with a set P of debts at balance <= 0 (the interest step leaves P as
\* it is), the budget left after the minimum-payment step is at least the sum
\* of minimumPayment over P.
C24_PaidOffMinimumsRollOver ==
    [][(/\ pc \in {"interest", "minimums"}
        /\ totalMonthlyPayment = MinimumsUpTo(simDebts, Len(simDebts))) =>
         /\ pc = "interest" =>
               \A i \in DOMAIN balances : (balances[i] <= 0) <=> (balances'[i] <= 0)
         /\ pc = "minimums" =>
               budget' >= MinimumsOfPaidOff(simDebts, balances, Len(balances))]_vars

\* the minimum step of a month of a simulation whose budget is the sum of the
\* minimums has left a budget that holds the minimum of a paid-off debt,
\* another debt being still active
C24_Witness ==
    /\ pc = "extra"
    /\ months > 1
    /\ totalMonthlyPayment = MinimumsUpTo(simDebts, Len(simDebts))
    /\ \E i \in DOMAIN balances :
          /\ balances[i] <= 0
          /\ simDebts[i].minimumPayment > 0
          /\ budget >= simDebts[i].minimumPayment
    /\ \E j \in DOMAIN balances : balances[j] > 0

-----------------------------------------------------------------------------
(* Properties of the cash-flow warnings *)

\* the actual payment, monthlyPayment or minimumPayment when absent, is at
\* most minimumPayment x 1.05
PaymentWithin5Pct(d) ==
    OrElse(d.monthlyPayment, d.minimumPayment) * 100 <= d.minimumPayment * 105

DebtsAtMinimum == SelectSeq(debts, PaymentWithin5Pct)

\* the debts with a stored, non-zero monthlyPayment of at most minimumPayment x 1.05
DebtsAtStoredMinimum ==
    SelectSeq(debts, LAMBDA d : /\ d.monthlyPayment # Nil
                                /\ d.monthlyPayment # 0
                                /\ d.monthlyPayment * 100 <= d.minimumPayment * 105)

MinimumsOnlyWarnings == WithTitle("Paying only minimums on some debts")

\* C25: the 'Paying only minimums on some debts' warning is emitted if and
\* only if at least one debt's actual monthly payment (monthlyPayment, taken
\* as minimumPayment when absent) is <= minimumPayment x 1.05, and it lists
\* exactly those debts.
C25_MinimumsOnlyIff ==
    reportPc = "done" =>
        IF DebtsAtMinimum # <<>>
        THEN /\ Len(MinimumsOnlyWarnings) = 1
             /\ MinimumsOnlyWarnings[1].debts = NamesOf(DebtsAtMinimum)
        ELSE MinimumsOnlyWarnings = <<>>

\* what the code does: only a stored, non-zero monthlyPayment is compared
C25_StoredPaymentsOnly ==
    reportPc = "done" =>
        IF DebtsAtStoredMinimum # <<>>
        THEN /\ Len(MinimumsOnlyWarnings) = 1
             /\ MinimumsOnlyWarnings[1].severity = "warning"
             /\ MinimumsOnlyWarnings[1].debts = NamesOf(DebtsAtStoredMinimum)
        ELSE MinimumsOnlyWarnings = <<>>

\* a report on a single debt without a monthlyPayment, which is therefore
\* paid at its minimum, without the warning
C25_Witness ==
    /\ reportPc = "done"
    /\ Len(debts) = 1
    /\ debts[1].monthlyPayment = Nil
    /\ debts[1].minimumPayment > 0
    /\ MinimumsOnlyWarnings = <<>>

\* a report whose warning lists one of its two debts and leaves out the one
\* without a monthlyPayment
C25_ListsStoredOnly ==
    /\ reportPc = "done"
    /\ Len(debts) = 2
    /\ Len(MinimumsOnlyWarnings) = 1
    /\ Len(MinimumsOnlyWarnings[1].debts) = 1
    /\ \E i \in DOMAIN debts : debts[i].monthlyPayment = Nil

\* stocks + crypto cover fewer than 3 months of twice the monthly payments on
\* debts and mortgages, which are > 0
BufferBelow3Months ==
    /\ MonthlyDebtPayments(realEstate, debts) > 0
    /\ TotalStocks(stocks) + TotalCrypto(crypto) < 3 * (2 * MonthlyDebtPayments(realEstate, debts))

EmergencyBufferWarnings == WithTitle("Limited emergency buffer")

\* C26: the 'Limited emergency buffer' warning is emitted if and only if
\* monthlyDebtPayments > 0 (debt payments plus real-estate monthly mortgage
\* payments) and the liquid proxy (stocks value + crypto value) is less than
\* 3 x (2 x monthlyDebtPayments).
C26_EmergencyBufferIff ==
    reportPc = "done" =>
        Len(EmergencyBufferWarnings) = (IF BufferBelow3Months THEN 1 ELSE 0)

\* what the code does: the warning also requires a debt in the list
C26_BufferNeedsADebt ==
    reportPc = "done" =>
        /\ Len(EmergencyBufferWarnings) = (IF BufferBelow3Months /\ Len(debts) > 0 THEN 1 ELSE 0)
        /\ \A i \in DOMAIN EmergencyBufferWarnings :
              /\ EmergencyBufferWarnings[i].severity = "warning"
              /\ EmergencyBufferWarnings[i].category = "cash_flow"

\* a report on a mortgaged property with a monthly mortgage payment, no debts
\* and no liquid holdings, without the warning
C26_Witness ==
    /\ reportPc = "done"
    /\ debts = <<>>
    /\ MonthlyDebtPayments(realEstate, debts) > 0
    /\ stocks = <<>>
    /\ crypto = <<>>
    /\ EmergencyBufferWarnings = <<>>

\* a report with the warning
C26_Warned ==
    /\ reportPc = "done"
    /\ Len(EmergencyBufferWarnings) = 1

-----------------------------------------------------------------------------
(* Invariants of the payoff simulation *)

NonNegativeDebts ==
    \A i \in DOMAIN simDebts :
        /\ simDebts[i].balance >= 0
        /\ simDebts[i].rate >= 0
        /\ simDebts[i].minimumPayment >= 0

\* the state is inside a simulated month or between two months
InSimulation == pc \in {"while", "interest", "minimums", "extra"}

\* C27: for non-negative balances, rates and minimum payments, at the end of
\* every payment step each debt's balance is >= 0 and the monthly budget pool
\* is >= 0, the total paid across all debts in one month (what the two
\* payment steps take off the balances, each step taking it out of the pool
\* that starts the month at totalMonthlyPayment) never exceeds
\* totalMonthlyPayment, and a debt whose balance is <= 0 neither accrues
\* interest nor receives a payment.
C27_SimulationInvariant ==
    [][(InSimulation /\ NonNegativeDebts) =>
         /\ pc \in {"minimums", "extra"} =>
               /\ \A i \in DOMAIN balances : balances'[i] >= 0
               /\ budget' >= 0
               /\ SumSeq(balances) - SumSeq(balances') = budget - budget'
               /\ budget <= totalMonthlyPayment
         /\ pc = "minimums" => budget = totalMonthlyPayment
         /\ pc \in {"interest", "minimums", "extra"} =>
               \A i \in DOMAIN balances : balances[i] <= 0 => balances'[i] = balances[i]]_vars

\* the second month or a later one ends with the pool used up, one debt
\* paid off during the simulation and another still owing
C27_Witness ==
    /\ pc = "while"
    /\ months >= 2
    /\ budget = 0
    /\ NonNegativeDebts
    /\ \E i \in DOMAIN balances : balances[i] = 0 /\ simDebts[i].balance > 0
    /\ \E j \in DOMAIN balances : balances[j] > 0

\* k more months from st: owing stays TRUE as long as every month began with
\* positive balances that sum to more than 0.01
RECURSIVE Replay(_, _, _, _)
Replay(ds, st, total, k) ==
    IF k = 0 \/ ~st.owing THEN st
    ELSE Replay(ds,
                [owing |-> TotalRemaining(st.balances) > EPSILON,
                 balances |-> MonthStep(ds, st.balances, total)],
                total, k - 1)

\* the same, 25 months at a time (which keeps the evaluation shallow and
\* changes no value)
RECURSIVE ReplayInBlocks(_, _, _, _)
ReplayInBlocks(ds, st, total, k) ==
    IF k = 0 \/ ~st.owing THEN st
    ELSE ReplayInBlocks(ds, Replay(ds, st, total, Min2(k, 25)), total, k - Min2(k, 25))

\* the positive balances sum to more than 0.01 now and after each of the next
\* k - 1 months, and to at most 0.01 after k months
OwingUntil(ds, bals, total, k) ==
    LET st == ReplayInBlocks(ds, [owing |-> TRUE, balances |-> bals], total, k)
    IN  st.owing /\ TotalRemaining(st.balances) <= EPSILON

\* C28: whenever estimatePayoffMonths is called with a non-empty debts list
\* and a positive budget and returns a value m < 600, the sum of the positive
\* balances after m simulated months is <= 0.01 and it was > 0.01 after every
\* smaller number of months.
C28_FirstPaidOffMonth ==
    (pc = "done" /\ Len(simDebts) > 0 /\ totalMonthlyPayment > 0 /\ result < MAX_MONTHS) =>
        /\ result >= 0
        /\ OwingUntil(simDebts, [i \in DOMAIN simDebts |-> simDebts[i].balance],
                      totalMonthlyPayment, result)

\* a call on two debts that returns after more than two months and before the cap
C28_Witness ==
    /\ pc = "done"
    /\ Len(simDebts) = 2
    /\ totalMonthlyPayment > 0
    /\ result > 2
    /\ result < MAX_MONTHS

-----------------------------------------------------------------------------
(* Properties of the web price refresh under concurrent edits *)

\* refreshAllPrices and the update or delete issued while it was in flight
\* have both completed
BothCompleted ==
    /\ rpc = "done"
    /\ upc = "done"
    /\ edit.inFlight

Edited == db[edit.store][edit.id]

\* C29: a web price refresh changes only currentPrice and lastPriceUpdate of
\* the stored holdings: under any interleaving of refreshAllPrices with an
\* update or delete of a holding issued while the refresh is in flight, the
\* edited fields of that holding keep the edited values and a deleted holding
\* stays deleted once both operations have completed.
C29_EditsSurviveRefresh ==
    BothCompleted =>
        /\ edit.kind = "update" => (Edited # Absent /\ Edited.units = edit.units)
        /\ edit.kind = "delete" => Edited = Absent

\* a holding deleted while the refresh was in flight is in its store again,
\* with the new price
C29_Witness ==
    /\ BothCompleted
    /\ edit.kind = "delete"
    /\ Edited # Absent
    /\ Edited.lastPriceUpdate = 1

\* a holding edited to 20 units while the refresh was in flight has its 10
\* units back
C29_LostUpdate ==
    /\ BothCompleted
    /\ edit.kind = "update"
    /\ Edited # Absent
    /\ Edited.units = 10

\* what the code keeps: a put of the refresh writes the object that getAll
\* returned, changed in currentPrice and lastPriceUpdate only
C29_PutWritesTheCopyRead ==
    [][(rpc = "put" /\ idx' # idx) =>
         /\ db'[phase][held[idx].id].key = held[idx].value.key
         /\ db'[phase][held[idx].id].units = held[idx].value.units
         /\ db'[phase][held[idx].id].costBasis = held[idx].value.costBasis
         /\ db'[phase][held[idx].id].updatedAt = held[idx].value.updatedAt]_vars

-----------------------------------------------------------------------------
(* Properties of the price scheduler *)

\* C30: once stopPriceScheduler (main) or stopScheduler (web) has returned, no
\* scheduled refreshAllPrices invocation starts until the scheduler is started
\* again, for every sequence of start and stop calls, a stop within 3 seconds
\* of the start and a start issued twice without a stop in between included.
C30_NoRefreshWhileStopped ==
    [][refreshStarts' # refreshStarts => ~stopped]_vars

\* a refresh has started after a stop and before any new start
C30_Witness ==
    /\ lateStart
    /\ stopped
    /\ intervalId = Nil

\* a stop within 3 seconds of a single start: the timeout is still set
C30_StopWithin3Seconds ==
    /\ stopped
    /\ nextTimer = 3
    /\ timers = {[id |-> 1, kind |-> "timeout"]}

\* two starts and a stop: the first interval is still set
C30_LeakedInterval ==
    /\ stopped
    /\ nextTimer = 5
    /\ [id |-> 2, kind |-> "interval"] \in timers

\* what the code keeps: the stop function clears the interval of the last start
C30_LastIntervalCleared ==
    stopped => (intervalId = Nil /\ \A t \in timers : t.id # nextTimer - 1)

=============================================================================
